---- MODULE Spec2Model ----
(***************************************************************************)
(* Verification model of digital-potions: the tween calculator            *)
(* (src/tween-calculator/src/tween-calculator.js), the event emitter,      *)
(* the x-position animator, the physics animator and the focus trap, each  *)
(* introduced by its own section below.  A behaviour constructs one of     *)
(* these components and works on it; the others stay unconstructed.        *)
(*                                                                         *)
(* The source file holds two definitions of class TweenCalculator.  The    *)
(* definition at lines 421-944 is modelled under the source's names; the   *)
(* definition at lines 4-416 is modelled under the same names with the     *)
(* suffix 1.  The variable cls records which of the two was instantiated.  *)
(*                                                                         *)
(* ECMAScript numbers are modelled as exact rationals plus NaN and the two *)
(* infinities.  The value domains below are chosen so that no rounding     *)
(* step of the source meets an inexactly represented tie.                  *)
(***************************************************************************)
EXTENDS Integers, Sequences, FiniteSets, TLC

VARIABLES
    cls,        \* which class definition the instance was built from
    keyframes,  \* this.keyframes: the stored keyframe list
    given,      \* history: the list passed to the last constructor/setKeyframes call
    previous,   \* history: the list passed to the call before that one
    call,       \* the last call made on the instance: [op, pos]
    status,     \* how the last call ended: "returned" or "threw"
    result,     \* the value the last call returned
    tweens,     \* history: the stored list as the last constructor call,
                \* setKeyframes call or caller's edit left it, the first
                \* calculateTween call made since then, and the latest one made
                \* after it with another progress
    emitterCls, \* which DPEventEmitter definition the emitter was built from
    events,     \* this.#events: for every event name, its listener array
    frame,      \* the activation of emit: its locals and what it has called
    ecall,      \* the last call made on the emitter and how it ended
    animator,   \* a DPAnimateXPos instance, the module state it reads, its frame requests
    physics,    \* a PhysicsAnimator instance, its animateTo runs, their frame requests
    trap        \* a panel, its trigger and its focus-trap element in the document

tweenVars == <<cls, keyframes, given, previous, call, status, result, tweens>>
emitterVars == <<emitterCls, events, frame, ecall>>
pageVars == <<animator, physics, trap>>
vars == <<tweenVars, emitterVars, pageVars>>

\* no DPAnimateXPos, PhysicsAnimator or focus-trap element has been constructed
NoPage ==
    /\ animator = [cls |-> "none"]
    /\ physics = [cls |-> "none"]
    /\ trap = [cls |-> "none"]

\* no DPEventEmitter has been constructed
NoEmitter ==
    /\ emitterCls = "none"
    /\ events = <<>>
    /\ frame = [pc |-> "idle"]
    /\ ecall = [op |-> "none"]

Null == [ty |-> "null", s |-> "null"]

(***************************************************************************)
(* ECMAScript Number arithmetic                                            *)
(***************************************************************************)
RECURSIVE GCD(_, _)
GCD(a, b) == IF b = 0 THEN a ELSE GCD(b, a % b)

\* the finite number n / d (d > 0), kept in lowest terms
Fin(n, d) ==
    LET g == GCD(IF n < 0 THEN -n ELSE n, d)
    IN  [c |-> "fin", n |-> n \div g, d |-> d \div g]
NaN == [c |-> "nan", n |-> 0, d |-> 1]
Inf(sg) == [c |-> "inf", n |-> sg, d |-> 1]
Int2Num(i) == Fin(i, 1)

Abs(i) == IF i < 0 THEN -i ELSE i
Sign(i) == IF i < 0 THEN -1 ELSE IF i > 0 THEN 1 ELSE 0

isNaN(x) == x.c = "nan"

Neg(x) == [x EXCEPT !.n = -x.n]

\* x + y
Add(x, y) ==
    IF isNaN(x) \/ isNaN(y) THEN NaN
    ELSE IF x.c = "inf" /\ y.c = "inf" THEN (IF x.n = y.n THEN x ELSE NaN)
    ELSE IF x.c = "inf" THEN x
    ELSE IF y.c = "inf" THEN y
    ELSE Fin(x.n * y.d + y.n * x.d, x.d * y.d)

\* x - y
Sub(x, y) == Add(x, Neg(y))

\* x * y
Mul(x, y) ==
    IF isNaN(x) \/ isNaN(y) THEN NaN
    ELSE IF x.c = "inf" \/ y.c = "inf"
         THEN (IF x.n = 0 \/ y.n = 0 THEN NaN ELSE Inf(Sign(x.n) * Sign(y.n)))
    ELSE Fin(x.n * y.n, x.d * y.d)

\* x / y   (a zero divisor is +0: every divisor of the source is a
\* difference a - b of two percents, and a - a is +0)
Div(x, y) ==
    IF isNaN(x) \/ isNaN(y) THEN NaN
    ELSE IF x.c = "inf" THEN (IF y.c = "inf" THEN NaN
                              ELSE Inf(x.n * (IF y.n < 0 THEN -1 ELSE 1)))
    ELSE IF y.c = "inf" THEN Fin(0, 1)
    ELSE IF y.n = 0 THEN (IF x.n = 0 THEN NaN ELSE Inf(Sign(x.n)))
    ELSE Fin(x.n * y.d * Sign(y.n), x.d * Abs(y.n))

\* x < y
Lt(x, y) ==
    IF isNaN(x) \/ isNaN(y) THEN FALSE
    ELSE IF x.c = "inf" THEN x.n < 0 /\ ~(y.c = "inf" /\ y.n < 0)
    ELSE IF y.c = "inf" THEN y.n > 0
    ELSE x.n * y.d < y.n * x.d

\* x <= y
Le(x, y) ==
    IF isNaN(x) \/ isNaN(y) THEN FALSE
    ELSE IF x.c = "inf" /\ y.c = "inf" THEN x.n <= y.n
    ELSE IF x.c = "inf" THEN x.n < 0
    ELSE IF y.c = "inf" THEN y.n > 0
    ELSE x.n * y.d <= y.n * x.d

\* Math.floor in the place of Math.round
MathRound_Floor(x) ==
    IF x.c # "fin" THEN x
    ELSE Fin(x.n \div x.d, 1)

\* Math.round: the nearest integer, a tie going towards +Infinity
MathRound(x) ==
    IF x.c # "fin" THEN x
    ELSE Fin((2 * x.n + x.d) \div (2 * x.d), 1)

RECURSIVE Pow10(_)
Pow10(k) == IF k = 0 THEN 1 ELSE 10 * Pow10(k - 1)

(***************************************************************************)
(* Number -> String conversions                                            *)
(***************************************************************************)
\* n written with exactly k decimal digits (leading zeros kept)
RECURSIVE Pad(_, _)
Pad(n, k) == IF k = 0 THEN "" ELSE Pad(n \div 10, k - 1) \o ToString(n % 10)

\* Number.prototype.toFixed(k) as a parsed decimal: sign taken first, then
\* the magnitude rounded to k digits, a tie going to the larger magnitude
ToFixed(x, k) ==
    IF x.c # "fin" THEN [c |-> x.c, neg |-> x.n < 0, mag |-> 0, k |-> k]
    ELSE LET whole == Abs(x.n) \div x.d
             rem == Abs(x.n) % x.d
         IN  [c |-> "fin", neg |-> x.n < 0,
              mag |-> whole * Pow10(k) + (2 * rem * Pow10(k) + x.d) \div (2 * x.d),
              k |-> k]

\* the text of a toFixed result
FixedText(f) ==
    IF f.c = "nan" THEN "NaN"
    ELSE IF f.c = "inf" THEN (IF f.neg THEN "-Infinity" ELSE "Infinity")
    ELSE (IF f.neg THEN "-" ELSE "") \o ToString(f.mag \div Pow10(f.k))
         \o (IF f.k = 0 THEN "" ELSE "." \o Pad(f.mag % Pow10(f.k), f.k))

\* parseFloat applied to the text of a toFixed result
FixedToNum(f) ==
    IF f.c = "nan" THEN NaN
    ELSE IF f.c = "inf" THEN Inf(IF f.neg THEN -1 ELSE 1)
    ELSE Fin((IF f.neg THEN -1 ELSE 1) * f.mag, Pow10(f.k))

\* the fraction digits of a decimal with trailing zeros removed
RECURSIVE FracText(_, _)
FracText(frac, k) ==
    IF k = 0 \/ frac = 0 THEN ""
    ELSE IF frac % 10 = 0 THEN FracText(frac \div 10, k - 1)
    ELSE "." \o Pad(frac, k)

DecimalPlaces == 4

\* Number.prototype.toString for the numbers the model renders: decimals
\* of at most DecimalPlaces digits (-0 prints as "0")
NumberToString(x) ==
    IF x.c = "nan" THEN "NaN"
    ELSE IF x.c = "inf" THEN (IF x.n < 0 THEN "-Infinity" ELSE "Infinity")
    ELSE LET whole == Abs(x.n) \div x.d
             frac == ((Abs(x.n) % x.d) * Pow10(DecimalPlaces)) \div x.d
         IN  (IF x.n < 0 THEN "-" ELSE "") \o ToString(whole)
             \o FracText(frac, DecimalPlaces)

(***************************************************************************)
(* Property values.  A style value of a keyframe is one of                 *)
(*   number   a JS number                       [k, n]                     *)
(*   dim      a numeric string with a unit      [k, n, u]      "10px"      *)
(*   hex      a colour string #RRGGBB           [k, rgb]       "#FF0000"   *)
(*   token    a plain keyword                   [k, s]         "none"      *)
(*   funcs    a list of functions name(args)    [k, fs]  "translateX(1px)" *)
(* Undefined is the JS value undefined, which reaches the interpolation    *)
(* helpers through property reads such as array.value.                     *)
(***************************************************************************)
NumberV(n) == [k |-> "number", n |-> n]
DimV(n, u) == [k |-> "dim", n |-> n, u |-> u]
HexV(r, g, b) == [k |-> "hex", rgb |-> <<r, g, b>>]
TokenV(s) == [k |-> "token", s |-> s]
\* hsl(h, s%, l%) when alpha is the empty text, hsla(h, s%, l%, alpha) otherwise
HslV(h, s, l, alpha) == [k |-> "hsl", h |-> h, s |-> s, l |-> l, alpha |-> alpha]
Arg(n, u) == [n |-> n, u |-> u]
Fn(name, args) == [name |-> name, args |-> args]
FuncsV(fs) == [k |-> "funcs", fs |-> fs]
Undefined == [k |-> "undefined"]

HexDigits == <<"0", "1", "2", "3", "4", "5", "6", "7",
               "8", "9", "A", "B", "C", "D", "E", "F">>
Hex2(n) == HexDigits[(n \div 16) + 1] \o HexDigits[(n % 16) + 1]

RECURSIVE JoinText(_, _)
JoinText(seq, sep) ==
    IF Len(seq) = 0 THEN ""
    ELSE IF Len(seq) = 1 THEN seq[1]
    ELSE seq[1] \o sep \o JoinText(Tail(seq), sep)

ArgText(a) == ToString(a.n) \o a.u
FnText(f) ==
    f.name \o "(" \o JoinText([i \in 1..Len(f.args) |-> ArgText(f.args[i])], ", ") \o ")"

\* the text of a property value as written in the keyframe
Src(v) ==
    CASE v.k = "number" -> ToString(v.n)
      [] v.k = "dim" -> ToString(v.n) \o v.u
      [] v.k = "hex" -> "#" \o Hex2(v.rgb[1]) \o Hex2(v.rgb[2]) \o Hex2(v.rgb[3])
      [] v.k = "token" -> v.s
      [] v.k = "hsl" ->
             (IF v.alpha = "" THEN "hsl(" ELSE "hsla(")
             \o ToString(v.h) \o ", " \o ToString(v.s) \o "%, " \o ToString(v.l) \o "%"
             \o (IF v.alpha = "" THEN "" ELSE ", " \o v.alpha) \o ")"
      [] v.k = "funcs" -> JoinText([i \in 1..Len(v.fs) |-> FnText(v.fs[i])], " ")
      [] v.k = "undefined" -> "undefined"

\* global parseFloat on a value: the leading decimal number, else NaN
parseFloat(v) ==
    IF v.k \in {"number", "dim"} THEN Int2Num(v.n) ELSE NaN

(***************************************************************************)
(* JS values as they flow out of the helpers: the type, the text, and the  *)
(* number parseFloat makes of the value.                                   *)
(***************************************************************************)
JV(v) ==
    [ty |-> IF v.k = "number" THEN "number"
            ELSE IF v.k = "undefined" THEN "undefined" ELSE "string",
     s |-> Src(v), pf |-> parseFloat(v)]
StrJ(text, pf) == [ty |-> "string", s |-> text, pf |-> pf]
NumJ(x) == [ty |-> "number", s |-> NumberToString(x), pf |-> x]
Thrown == [ty |-> "throw", s |-> "TypeError", pf |-> NaN]

(***************************************************************************)
(* class TweenCalculator, definition of lines 421-944                      *)
(***************************************************************************)
discreteProperties ==
    {"display", "position", "float", "clear", "visibility", "overflow",
     "overflow-x", "overflow-y", "flex-direction", "flex-wrap",
     "justify-content", "align-items", "align-content", "order",
     "grid-template-columns", "grid-template-rows", "grid-template-areas",
     "grid-auto-flow", "z-index", "table-layout", "empty-cells",
     "caption-side", "list-style-type", "list-style-position",
     "pointer-events", "user-select", "box-sizing", "resize", "text-align",
     "text-transform", "white-space", "word-break", "word-wrap",
     "font-style", "font-weight", "font-variant", "background-repeat",
     "background-attachment", "background-position", "border-style",
     "border-collapse", "content", "page-break-before", "page-break-after",
     "page-break-inside"}

\* formatNumber(num): parseFloat, toFixed(4), parseFloat, toString
formatNumber(j) ==
    LET num == j.pf
        t == NumberToString(FixedToNum(ToFixed(num, DecimalPlaces)))
    IN  StrJ(t, FixedToNum(ToFixed(num, DecimalPlaces)))

\* parseValue(value): [ok, value, unit]; ok = FALSE stands for null
parseValue(v) ==
    IF v.k = "number" THEN [ok |-> TRUE, value |-> Int2Num(v.n), unit |-> ""]
    ELSE IF v.k = "dim" THEN [ok |-> TRUE, value |-> Int2Num(v.n), unit |-> v.u]
    ELSE [ok |-> FALSE, value |-> NaN, unit |-> ""]

\* isColor(value): the anchored pattern of line 799
isColor(v) == v.k \in {"hex", "hsl"}

ByteMax == 255

\* Math.abs
MathAbs(x) == IF x.c = "fin" /\ x.n < 0 THEN Neg(x) ELSE x

\* the locals of hslToRGB, lines 876-897: each takes the locals it reads
\* c = (1 - Math.abs(2 * l - 1)) * s
hslChroma(s, l) ==
    Mul(Sub(Int2Num(1), MathAbs(Sub(Mul(Int2Num(2), l), Int2Num(1)))), s)
\* x = c * (1 - Math.abs(((h / 60) % 2) - 1)), for the integer h of 0..359
hslSecond(c, h) ==
    Mul(c, Sub(Int2Num(1), MathAbs(Sub(Fin(h % 120, 60), Int2Num(1)))))
\* [r1, g1, b1] by the sector of the hue
hslSector(h, c, x) ==
    IF h < 60 THEN <<c, x, Int2Num(0)>>
    ELSE IF h < 120 THEN <<x, c, Int2Num(0)>>
    ELSE IF h < 180 THEN <<Int2Num(0), c, x>>
    ELSE IF h < 240 THEN <<Int2Num(0), x, c>>
    ELSE IF h < 300 THEN <<x, Int2Num(0), c>>
    ELSE <<c, Int2Num(0), x>>
\* Math.round((r1 + m) * 255) for the three channels
hslBytes(rgb1, m) ==
    [i \in 1..3 |-> MathRound(Mul(Add(rgb1[i], m), Int2Num(ByteMax))).n]
hslFromChroma(h, l, c) ==
    hslBytes(hslSector(h, c, hslSecond(c, h)), Sub(l, Div(c, Int2Num(2))))

\* hslToRGB(hsl).  The pattern of line 866 ends with the lightness and the
\* closing bracket, so a text with an alpha argument does not match it.
hslToRGB(v) ==
    IF v.alpha # "" THEN <<0, 0, 0>>
    ELSE hslFromChroma(v.h % 360, Fin(v.l, 100),
                       hslChroma(Fin(v.s, 100), Fin(v.l, 100)))

\* colorToRGB(color): the hsl and hsla patterns of lines 846 and 851 both
\* hand the text to hslToRGB
colorToRGB(v) ==
    IF v.k = "hex" THEN v.rgb
    ELSE IF v.k = "hsl" THEN hslToRGB(v)
    ELSE <<0, 0, 0>>

\* the clamp closure of interpolateColor: Math.max(0, Math.min(255, val))
clamp(x) ==
    IF isNaN(x) THEN NaN
    ELSE IF Lt(Int2Num(ByteMax), x) THEN Int2Num(ByteMax)
    ELSE IF Lt(x, Int2Num(0)) THEN Int2Num(0)
    ELSE x

\* interpolateColor(start, end, factor)
interpolateColor(start, end, factor) ==
    LET startRGB == colorToRGB(start)
        endRGB == colorToRGB(end)
        ch(i) == MathRound(Add(Int2Num(startRGB[i]),
                     Mul(Int2Num(endRGB[i] - startRGB[i]), factor)))
        r == clamp(ch(1))
        g == clamp(ch(2))
        b == clamp(ch(3))
        \* x << n on a NaN operand is 0; NaN as an addend makes the sum NaN
        \* and "NaN".slice(1).toUpperCase() is "AN"
        sh(x) == IF isNaN(x) THEN 0 ELSE x.n \div x.d
    IN  IF isNaN(b) THEN StrJ("#AN", NaN)
        ELSE StrJ("#" \o Hex2(sh(r)) \o Hex2(sh(g)) \o Hex2(sh(b)), NaN)

\* the two replace calls of interpolateValue on a toFixed(2) text:
\* /\.00$/ -> '' and /(\.\d)0$/ -> '$1'
TrimFixed2(f) ==
    IF f.c # "fin" THEN FixedText(f)
    ELSE IF f.mag % 100 = 0
         THEN (IF f.neg THEN "-" ELSE "") \o ToString(f.mag \div 100)
    ELSE IF f.mag % 10 = 0
         THEN (IF f.neg THEN "-" ELSE "") \o ToString(f.mag \div 100)
              \o "." \o ToString((f.mag % 100) \div 10)
    ELSE FixedText(f)

ValueDigits == 2

\* interpolateValue with the unit branch computing start + end * factor
interpolateValue_NoDelta(start, end, factor) ==
    IF isColor(start) /\ isColor(end) THEN interpolateColor(start, end, factor)
    ELSE IF start.k = "number" /\ end.k = "number"
         THEN formatNumber(NumJ(Add(Int2Num(start.n),
                                    Mul(Int2Num(end.n - start.n), factor))))
    ELSE LET startParsed == parseValue(start)
             endParsed == parseValue(end)
         IN  IF startParsed.ok /\ endParsed.ok /\ startParsed.unit = endParsed.unit
             THEN LET interpolatedValue ==
                          Add(startParsed.value, Mul(endParsed.value, factor))
                      f == ToFixed(interpolatedValue, ValueDigits)
                  IN  StrJ(TrimFixed2(f) \o startParsed.unit, FixedToNum(f))
             ELSE IF Lt(factor, Int2Num(1)) THEN JV(start) ELSE JV(end)

\* interpolateValue(start, end, factor, isNumeric)
interpolateValue(start, end, factor) ==
    IF isColor(start) /\ isColor(end) THEN interpolateColor(start, end, factor)
    ELSE IF start.k = "number" /\ end.k = "number"
         THEN formatNumber(NumJ(Add(Int2Num(start.n),
                                    Mul(Int2Num(end.n - start.n), factor))))
    ELSE LET startParsed == parseValue(start)
             endParsed == parseValue(end)
         IN  IF startParsed.ok /\ endParsed.ok /\ startParsed.unit = endParsed.unit
             THEN LET interpolatedValue ==
                          Add(startParsed.value,
                              Mul(Sub(endParsed.value, startParsed.value), factor))
                      f == ToFixed(interpolatedValue, ValueDigits)
                  IN  StrJ(TrimFixed2(f) \o startParsed.unit, FixedToNum(f))
             ELSE IF Lt(factor, Int2Num(1)) THEN JV(start) ELSE JV(end)

(***************************************************************************)
(* Transform strings.  parseTransform returns an object keyed by function  *)
(* name; it is modelled as the sequence of its entries in key order.  An   *)
(* entry is the {value, unit} object of a one-argument function, or the    *)
(* array of such objects of a function with several arguments; reading     *)
(* .value or .unit of an array gives undefined.                            *)
(***************************************************************************)
UnitOf(s) == [def |-> TRUE, s |-> s]
NoUnit == [def |-> FALSE, s |-> ""]
\* unit || ''
OrEmpty(u) == IF u.def THEN u.s ELSE ""

Single(name, n, u) ==
    [name |-> name, arr |-> FALSE, value |-> NumberV(n), unit |-> UnitOf(u),
     items |-> <<>>]
ArrayOf(name, args) ==
    [name |-> name, arr |-> TRUE, value |-> Undefined, unit |-> NoUnit,
     items |-> args]

\* parseTransform(transform)
parseTransform(v) ==
    IF v.k # "funcs" THEN <<>>
    ELSE [i \in 1..Len(v.fs) |->
             LET argParts == v.fs[i].args
             IN  IF Len(argParts) > 1 THEN ArrayOf(v.fs[i].name, argParts)
                 ELSE Single(v.fs[i].name, argParts[1].n, argParts[1].u)]

HasFunc(fns, func) == \E i \in 1..Len(fns) : fns[i].name = func
GetFunc(fns, func) == fns[CHOOSE i \in 1..Len(fns) : fns[i].name = func]

\* new Set([...Object.keys(startFunctions), ...Object.keys(endFunctions)])
allFunctions(startFunctions, endFunctions) ==
    [i \in 1..Len(startFunctions) |-> startFunctions[i].name]
    \o SelectSeq([i \in 1..Len(endFunctions) |-> endFunctions[i].name],
                 LAMBDA f : ~HasFunc(startFunctions, f))

\* isNumericFunction(func)
isNumericFunction(func) ==
    func \in {"translate", "translateX", "translateY", "translateZ",
              "scale", "scaleX", "scaleY", "scaleZ",
              "rotate", "rotateX", "rotateY", "rotateZ",
              "skew", "skewX", "skewY", "perspective"}

\* Array.isArray(x): no .value read of an entry yields an array
IsArray(x) == x.k = "array"

\* the start and end objects chosen for one function name
startOf(startFunctions, func) ==
    IF HasFunc(startFunctions, func) THEN GetFunc(startFunctions, func)
    ELSE IF isNumericFunction(func) THEN Single(func, 0, "px")
    ELSE Single(func, 0, "")
endOf(endFunctions, func, start) ==
    IF HasFunc(endFunctions, func) THEN GetFunc(endFunctions, func)
    ELSE [name |-> func, arr |-> FALSE, value |-> start.value,
          unit |-> start.unit, items |-> <<>>]

\* interpolateTransform(startTransform, endTransform, factor)
interpolateTransform(startTransform, endTransform, factor) ==
    LET startFunctions == parseTransform(startTransform)
        endFunctions == parseTransform(endTransform)
        names == allFunctions(startFunctions, endFunctions)
        one(func) ==
            LET start == startOf(startFunctions, func)
                end == endOf(endFunctions, func, start)
            IN  IF IsArray(start.value)
                THEN func \o "("
                     \o JoinText([i \in 1..Len(start.value.items) |->
                          LET arg == start.value.items[i]
                              endArg == IF i <= Len(end.value.items)
                                        THEN end.value.items[i] ELSE arg
                          IN  formatNumber(interpolateValue(NumberV(arg.n),
                                  NumberV(endArg.n), factor)).s \o arg.u], ", ")
                     \o ")"
                ELSE func \o "("
                     \o formatNumber(interpolateValue(start.value, end.value, factor)).s
                     \o OrEmpty(start.unit) \o ")"
    IN  StrJ(JoinText([i \in 1..Len(names) |-> one(names[i])], " "), NaN)

\* extrapolateTransform(startTransform, endTransform, factor, direction)
extrapolateTransform(startTransform, endTransform, factor, direction) ==
    LET startFunctions == parseTransform(startTransform)
        endFunctions == parseTransform(endTransform)
        names == allFunctions(startFunctions, endFunctions)
        \* ToNumber of a .value read: undefined converts to NaN
        num(val) == IF val.k = "number" THEN Int2Num(val.n) ELSE NaN
        one(func) ==
            LET start == startOf(startFunctions, func)
                end == endOf(endFunctions, func, start)
            IN  IF IsArray(start.value)
                THEN func \o "("
                     \o JoinText([i \in 1..Len(start.value.items) |->
                          LET arg == start.value.items[i]
                              endArg == IF i <= Len(end.value.items)
                                        THEN end.value.items[i] ELSE arg
                              d == IF direction = "above"
                                   THEN Mul(Int2Num(endArg.n - arg.n), factor)
                                   ELSE IF direction = "below"
                                   THEN Mul(Int2Num(arg.n - endArg.n), factor)
                                   ELSE Int2Num(0)
                          IN  formatNumber(NumJ(Add(Int2Num(arg.n), d))).s
                              \o arg.u], ", ")
                     \o ")"
                ELSE LET d == IF direction = "above"
                              THEN Mul(Sub(num(end.value), num(start.value)), factor)
                              ELSE IF direction = "below"
                              THEN Mul(Sub(num(start.value), num(end.value)), factor)
                              ELSE Int2Num(0)
                         extrapolated == Add(num(end.value), d)
                     IN  func \o "(" \o formatNumber(NumJ(extrapolated)).s
                         \o OrEmpty(start.unit) \o ")"
    IN  StrJ(JoinText([i \in 1..Len(names) |-> one(names[i])], " "), NaN)

\* extrapolateValue(start, end, factor, direction)
extrapolateValue(start, end, factor, direction) ==
    LET startNum == parseFloat(start)
        endNum == parseFloat(end)
    IN  IF isNaN(startNum) \/ isNaN(endNum)
        THEN formatNumber(IF direction = "above" THEN JV(end) ELSE JV(start))
        ELSE LET extrapolatedValue ==
                     IF direction = "above"
                     THEN Add(endNum, Mul(Sub(endNum, startNum), factor))
                     ELSE IF direction = "below"
                     THEN Add(startNum, Mul(Sub(startNum, endNum), factor))
                     ELSE endNum
             IN  formatNumber(NumJ(extrapolatedValue))

(***************************************************************************)
(* Keyframes: [percent, styles], styles a function from the property names *)
(* it holds to their values.                                               *)
(***************************************************************************)
Keyframe(percent, styles) == [percent |-> percent, styles |-> styles]

\* this.keyframes.filter(kf => prop in kf.styles)
relevantKeyframes(kfs, prop) ==
    SelectSeq(kfs, LAMBDA kf : prop \in DOMAIN kf.styles)

\* relevantKeyframes.reduce((prev, curr) =>
\*   (curr.percent <= percent && curr.percent > prev.percent) ? curr : prev)
RECURSIVE reduceActive(_, _, _, _)
reduceActive(rel, i, prev, percent) ==
    IF i > Len(rel) THEN prev
    ELSE reduceActive(rel, i + 1,
             IF Le(Int2Num(rel[i].percent), percent) /\ rel[i].percent > prev.percent
             THEN rel[i] ELSE prev,
             percent)

\* interpolateDiscreteProperty(prop, percent)
interpolateDiscreteProperty(kfs, prop, percent) ==
    LET rel == relevantKeyframes(kfs, prop)
    IN  IF Len(rel) = 0 THEN Null
        ELSE JV(reduceActive(rel, 2, rel[1], percent).styles[prop])

\* the loop of interpolateProperty that looks for the surrounding pair:
\* the index of the first i with rel[i].percent <= percent <= rel[i+1].percent,
\* 0 when the loop ends without a break
RECURSIVE surroundingIndex(_, _, _)
surroundingIndex(rel, i, percent) ==
    IF i > Len(rel) - 1 THEN 0
    ELSE IF Le(Int2Num(rel[i].percent), percent)
            /\ Le(percent, Int2Num(rel[i + 1].percent))
         THEN i
    ELSE surroundingIndex(rel, i + 1, percent)

\* interpolateProperty(prop, percent)
interpolateProperty(kfs, prop, percent) ==
    IF prop \in discreteProperties THEN interpolateDiscreteProperty(kfs, prop, percent)
    ELSE
    LET rel == relevantKeyframes(kfs, prop)
        last == Len(rel)
    IN  IF Len(rel) = 0 THEN Null
        ELSE IF Len(rel) = 1 THEN JV(rel[1].styles[prop])
        ELSE IF Lt(percent, Int2Num(rel[1].percent))
        THEN LET startFrame == rel[1]
                 endFrame == rel[2]
                 factor == Div(Sub(percent, Int2Num(startFrame.percent)),
                               Int2Num(endFrame.percent - startFrame.percent))
                 startValue == startFrame.styles[prop]
                 endValue == endFrame.styles[prop]
             IN  IF prop = "transform"
                 THEN extrapolateTransform(startValue, endValue, factor, "below")
                 ELSE extrapolateValue(startValue, endValue, factor, "below")
        ELSE IF Lt(Int2Num(rel[last].percent), percent)
        THEN LET startFrame == rel[last - 1]
                 endFrame == rel[last]
                 factor == Div(Sub(percent, Int2Num(endFrame.percent)),
                               Int2Num(endFrame.percent - startFrame.percent))
                 startValue == startFrame.styles[prop]
                 endValue == endFrame.styles[prop]
             IN  IF prop = "transform"
                 THEN extrapolateTransform(startValue, endValue, factor, "above")
                 ELSE extrapolateValue(startValue, endValue, factor, "above")
        ELSE LET i == surroundingIndex(rel, 1, percent)
                 startFrame == IF i = 0 THEN rel[1] ELSE rel[i]
                 endFrame == IF i = 0 THEN rel[last] ELSE rel[i + 1]
                 startValue == startFrame.styles[prop]
                 endValue == endFrame.styles[prop]
                 factor == Div(Sub(percent, Int2Num(startFrame.percent)),
                               Int2Num(endFrame.percent - startFrame.percent))
             IN  IF prop = "transform"
                 THEN interpolateTransform(startValue, endValue, factor)
                 ELSE interpolateValue(startValue, endValue, factor)

\* the property names of the first keyframe only
allProperties_First(kfs) == DOMAIN kfs[1].styles

\* new Set(this.keyframes.flatMap(kf => Object.keys(kf.styles)))
allProperties(kfs) == UNION {DOMAIN kfs[i].styles : i \in 1..Len(kfs)}

Hundred == 100

\* calculateTween(position) on the stored list kfs; position arrives in
\* hundredths (the number pos / 100) and percent is position * 100
calculateTween(kfs, pos) ==
    LET percent == Mul(Fin(pos, Hundred), Int2Num(Hundred))
    IN  [prop \in allProperties(kfs) |-> interpolateProperty(kfs, prop, percent)]

\* a sort that puts an entry before the earlier entries of the same percent
RECURSIVE sortByPercent_Unstable(_)
sortByPercent_Unstable(kfs) ==
    IF Len(kfs) <= 1 THEN kfs
    ELSE LET rest == sortByPercent_Unstable(SubSeq(kfs, 1, Len(kfs) - 1))
             x == kfs[Len(kfs)]
             before == SelectSeq(rest, LAMBDA kf : kf.percent < x.percent)
             after == SelectSeq(rest, LAMBDA kf : kf.percent >= x.percent)
         IN  before \o <<x>> \o after

\* Array.prototype.sort((a, b) => a.percent - b.percent): a stable sort
RECURSIVE sortByPercent(_)
sortByPercent(kfs) ==
    IF Len(kfs) <= 1 THEN kfs
    ELSE LET rest == sortByPercent(SubSeq(kfs, 1, Len(kfs) - 1))
             x == kfs[Len(kfs)]
             before == SelectSeq(rest, LAMBDA kf : kf.percent <= x.percent)
             after == SelectSeq(rest, LAMBDA kf : kf.percent > x.percent)
         IN  before \o <<x>> \o after

(***************************************************************************)
(* class TweenCalculator, definition of lines 4-416 (names suffixed 1).    *)
(* parseValue, parseTransform, interpolateDiscreteProperty, setKeyframes   *)
(* and calculateTween have the same text in both definitions.              *)
(***************************************************************************)
\* Number(num) on a helper result
ToNumber(j) == IF j.ty = "number" THEN j.pf ELSE NaN

\* formatNumber(num): Number, toFixed(4), parseFloat, toString
formatNumber1(j) ==
    LET r == FixedToNum(ToFixed(ToNumber(j), DecimalPlaces))
    IN  StrJ(NumberToString(r), r)

\* isColor(value): the prefix pattern of line 363
isColor1(v) == v.k \in {"hex", "hsl"}

\* colorToRGB(color), lines 389-399
colorToRGB1(v) ==
    IF v.k = "hex" THEN v.rgb ELSE <<0, 0, 0>>

\* interpolateColor(start, end, factor), lines 373-382
interpolateColor1(start, end, factor) ==
    LET startRGB == colorToRGB1(start)
        endRGB == colorToRGB1(end)
        ch(i) == MathRound(Add(Int2Num(startRGB[i]),
                     Mul(Int2Num(endRGB[i] - startRGB[i]), factor)))
    IN  StrJ("rgb(" \o NumberToString(ch(1)) \o "," \o NumberToString(ch(2))
             \o "," \o NumberToString(ch(3)) \o ")", NaN)

\* interpolateNumericValues(start, end, factor)
interpolateNumericValues1(start, end, factor) ==
    LET startParsed == parseValue(start)
        endParsed == parseValue(end)
    IN  IF startParsed.ok /\ endParsed.ok /\ startParsed.unit = endParsed.unit
        THEN LET value == Add(startParsed.value,
                              Mul(Sub(endParsed.value, startParsed.value), factor))
                 t == formatNumber1(NumJ(value))
             IN  StrJ(t.s \o startParsed.unit, t.pf)
        ELSE IF Lt(factor, Int2Num(1)) THEN JV(start) ELSE JV(end)

\* interpolateValue(start, end, factor), lines 255-268
interpolateValue1(start, end, factor) ==
    IF isColor1(start) /\ isColor1(end) THEN interpolateColor1(start, end, factor)
    ELSE IF start.k = "number" /\ end.k = "number"
         THEN formatNumber1(NumJ(Add(Int2Num(start.n),
                                     Mul(Int2Num(end.n - start.n), factor))))
    ELSE interpolateNumericValues1(start, end, factor)

\* interpolateTransform(startTransform, endTransform, factor), lines 181-207.
\* The class has no method isNumericFunction: evaluating
\* _.isNumericFunction(func) for a function missing from the start side
\* raises a TypeError, which ends the call.
interpolateTransform1(startTransform, endTransform, factor) ==
    LET startFunctions == parseTransform(startTransform)
        endFunctions == parseTransform(endTransform)
        names == allFunctions(startFunctions, endFunctions)
        one(func) ==
            LET start == GetFunc(startFunctions, func)
                end == endOf(endFunctions, func, start)
            IN  IF IsArray(start.value)
                THEN func \o "("
                     \o JoinText([i \in 1..Len(start.value.items) |->
                          LET arg == start.value.items[i]
                              endArg == IF i <= Len(end.value.items)
                                        THEN end.value.items[i] ELSE arg
                          IN  interpolateValue1(NumberV(arg.n),
                                  NumberV(endArg.n), factor).s \o arg.u], ", ")
                     \o ")"
                ELSE func \o "("
                     \o interpolateValue1(start.value, end.value, factor).s
                     \o OrEmpty(start.unit) \o ")"
    IN  IF \E i \in 1..Len(names) : ~HasFunc(startFunctions, names[i])
        THEN Thrown
        ELSE StrJ(JoinText([i \in 1..Len(names) |-> one(names[i])], " "), NaN)

\* extrapolateTransform(startTransform, endTransform, factor, direction),
\* lines 278-301
extrapolateTransform1(startTransform, endTransform, factor, direction) ==
    LET startFunctions == parseTransform(startTransform)
        endFunctions == parseTransform(endTransform)
        names == allFunctions(startFunctions, endFunctions)
        num(val) == IF val.k = "number" THEN Int2Num(val.n) ELSE NaN
        one(func) ==
            LET start == IF HasFunc(startFunctions, func)
                         THEN GetFunc(startFunctions, func)
                         ELSE Single(func, 0, "px")
                end == endOf(endFunctions, func, start)
            IN  IF IsArray(start.value)
                THEN func \o "("
                     \o JoinText([i \in 1..Len(start.value.items) |->
                          LET arg == start.value.items[i]
                              endArg == IF i <= Len(end.value.items)
                                        THEN end.value.items[i] ELSE arg
                          IN  formatNumber1(NumJ(Add(Int2Num(arg.n),
                                  Mul(Int2Num(endArg.n - arg.n), factor)))).s], ", ")
                     \o ")"
                ELSE func \o "("
                     \o formatNumber1(NumJ(Add(num(start.value),
                            Mul(Sub(num(end.value), num(start.value)), factor)))).s
                     \o OrEmpty(start.unit) \o ")"
    IN  StrJ(JoinText([i \in 1..Len(names) |-> one(names[i])], " "), NaN)

\* getDefaultFilterUnit(func)
getDefaultFilterUnit1(func) ==
    IF func = "blur" THEN "px"
    ELSE IF func = "hue-rotate" THEN "deg"
    ELSE "%"

\* parseFilter(filter): each function's whole argument text goes through
\* parseValue; ok = FALSE marks an argument text parseValue answers with
\* null, whose destructuring raises a TypeError
parseFilter1(v) ==
    IF v.k # "funcs" THEN <<>>
    ELSE [i \in 1..Len(v.fs) |->
             IF Len(v.fs[i].args) = 1
             THEN [name |-> v.fs[i].name, ok |-> TRUE,
                   value |-> NumberV(v.fs[i].args[1].n),
                   unit |-> v.fs[i].args[1].u]
             ELSE [name |-> v.fs[i].name, ok |-> FALSE,
                   value |-> Undefined, unit |-> ""]]

\* interpolateFilter(startFilter, endFilter, factor)
interpolateFilter1(startFilter, endFilter, factor) ==
    LET startFunctions == parseFilter1(startFilter)
        endFunctions == parseFilter1(endFilter)
        names == allFunctions(startFunctions, endFunctions)
        one(func) ==
            LET start == IF HasFunc(startFunctions, func)
                         THEN GetFunc(startFunctions, func)
                         ELSE [name |-> func, ok |-> TRUE, value |-> NumberV(0),
                               unit |-> getDefaultFilterUnit1(func)]
                end == IF HasFunc(endFunctions, func)
                       THEN GetFunc(endFunctions, func)
                       ELSE start
            IN  func \o "(" \o interpolateValue1(start.value, end.value, factor).s
                \o start.unit \o ")"
    IN  IF \/ \E i \in 1..Len(startFunctions) : ~startFunctions[i].ok
           \/ \E i \in 1..Len(endFunctions) : ~endFunctions[i].ok
        THEN Thrown
        ELSE StrJ(JoinText([i \in 1..Len(names) |-> one(names[i])], " "), NaN)

\* handleExtrapolation(prop, percent, startFrame, endFrame, direction)
handleExtrapolation1(prop, percent, startFrame, endFrame, direction) ==
    LET factor == Div(Sub(percent, Int2Num(startFrame.percent)),
                      Int2Num(endFrame.percent - startFrame.percent))
        startValue == startFrame.styles[prop]
        endValue == endFrame.styles[prop]
    IN  IF prop = "transform"
        THEN extrapolateTransform1(startValue, endValue, factor, direction)
        ELSE interpolateNumericValues1(startValue, endValue, factor)

\* handleInterpolation(prop, percent, startFrame, endFrame)
handleInterpolation1(prop, percent, startFrame, endFrame) ==
    LET factor == Div(Sub(percent, Int2Num(startFrame.percent)),
                      Int2Num(endFrame.percent - startFrame.percent))
        startValue == startFrame.styles[prop]
        endValue == endFrame.styles[prop]
    IN  IF prop = "transform" THEN interpolateTransform1(startValue, endValue, factor)
        ELSE IF prop = "filter" THEN interpolateFilter1(startValue, endValue, factor)
        ELSE interpolateValue1(startValue, endValue, factor)

\* findSurroundingKeyframes(keyframes, percent)
findSurroundingKeyframes1(rel, percent) ==
    LET i == surroundingIndex(rel, 1, percent)
    IN  [startFrame |-> IF i = 0 THEN rel[1] ELSE rel[i],
         endFrame |-> IF i = 0 THEN rel[Len(rel)] ELSE rel[i + 1]]

\* interpolateProperty(prop, percent), lines 76-95
interpolateProperty1(kfs, prop, percent) ==
    IF prop \in discreteProperties THEN interpolateDiscreteProperty(kfs, prop, percent)
    ELSE
    LET rel == relevantKeyframes(kfs, prop)
        n == Len(rel)
    IN  IF n = 0 THEN Null
        ELSE IF Lt(percent, Int2Num(rel[1].percent))
        THEN handleExtrapolation1(prop, percent, rel[1],
                 IF n >= 2 THEN rel[2] ELSE rel[1], "below")
        ELSE IF Lt(Int2Num(rel[n].percent), percent)
        THEN handleExtrapolation1(prop, percent,
                 IF n >= 2 THEN rel[n - 1] ELSE rel[n], rel[n], "above")
        ELSE LET sur == findSurroundingKeyframes1(rel, percent)
             IN  handleInterpolation1(prop, percent, sur.startFrame, sur.endFrame)

\* calculateTween(position), lines 53-67
calculateTween1(kfs, pos) ==
    LET percent == Mul(Fin(pos, Hundred), Int2Num(Hundred))
    IN  [prop \in allProperties(kfs) |-> interpolateProperty1(kfs, prop, percent)]

(***************************************************************************)
(* The instance as a state machine                                         *)
(***************************************************************************)
FirstDefinition == "TweenCalculator (lines 4-416)"
SecondDefinition == "TweenCalculator (lines 421-944)"
Classes == {FirstDefinition, SecondDefinition}

MaxKeyframes == 2

\* all keyframe lists of 1..MaxKeyframes entries drawn from the set U
ListsOver(U) == UNION {[1..n -> U] : n \in 1..MaxKeyframes}

\* setKeyframes that adds the argument to the stored list
setKeyframes_Append(old, kfs) == sortByPercent(old \o kfs)

\* setKeyframes(keyframes): this.keyframes becomes the sorted argument;
\* old is this.keyframes before the call, which the assignment discards
setKeyframes(old, kfs) == sortByPercent(kfs)

\* the history after a constructor call, a setKeyframes call or a caller's
\* edit that left the list kfs in this.keyframes
Stored(kfs) == [stored |-> kfs, first |-> {}, other |-> {}]

\* the history after one more calculateTween call
Logged(h, entry) ==
    IF h.first = {} THEN [h EXCEPT !.first = {entry}]
    ELSE IF \E e \in h.first : e.pos = entry.pos THEN h
    ELSE [h EXCEPT !.other = {entry}]

\* new TweenCalculator(kfs) for every list kfs of L
Construct(L) ==
    /\ cls \in Classes
    /\ given \in L
    /\ keyframes = setKeyframes(<<>>, given)
    /\ previous = <<>>
    /\ call = [op |-> "new", pos |-> 0]
    /\ status = "returned"
    /\ result = Null
    /\ tweens = Stored(keyframes)
    /\ NoEmitter
    /\ NoPage

\* a JS array handed to the constructor, as opposed to any other value
ArrayV(items) == [k |-> "array", items |-> items]
ObjectV == [k |-> "object"]

\* new TweenCalculator(v) for every JS value v of R: v.sort(...) is evaluated
\* first, and throws a TypeError when v is not an array
ConstructAny(R) ==
    /\ cls \in Classes
    /\ given \in R
    /\ previous = <<>>
    /\ call = [op |-> "new", pos |-> 0]
    /\ IF given.k = "array"
       THEN /\ keyframes = setKeyframes(<<>>, given.items)
            /\ status = "returned"
            /\ result = Null
       ELSE /\ keyframes = <<>>
            /\ status = "threw"
            /\ result = Thrown
    /\ tweens = Stored(keyframes)
    /\ NoEmitter
    /\ NoPage

\* instance.setKeyframes(kfs)
SetKeyframes(kfs) ==
    /\ keyframes' = setKeyframes(keyframes, kfs)
    /\ given' = kfs
    /\ previous' = given
    /\ call' = [op |-> "setKeyframes", pos |-> 0]
    /\ status' = "returned"
    /\ result' = JV(Undefined)
    /\ tweens' = Stored(keyframes')
    /\ UNCHANGED cls
    /\ UNCHANGED <<emitterVars, pageVars>>

\* the array the caller passed to the last constructor/setKeyframes call, as
\* the caller sees it afterwards: sort() reorders the array it is called on
\* and returns that same array, so the caller's array is this.keyframes
callerArray == keyframes

Reverse(seq) == [i \in 1..Len(seq) |-> seq[Len(seq) + 1 - i]]

\* the caller changes the array it passed earlier (reverse, pop, or push of
\* a keyframe of U); the instance holds the same array
CallerEdits(U) ==
    /\ ~(call.op = "new" /\ status = "threw")
    /\ \E edited \in {Reverse(callerArray)}
                     \cup {SubSeq(callerArray, 1, Len(callerArray) - 1) :
                              n \in {Len(callerArray)} \ {0}}
                     \cup {Append(callerArray, kf) :
                              kf \in IF Len(callerArray) < MaxKeyframes
                                     THEN U ELSE {}} :
           keyframes' = edited
    /\ call' = [op |-> "edit", pos |-> 0]
    /\ status' = "returned"
    /\ result' = Null
    /\ tweens' = Stored(keyframes')
    /\ UNCHANGED <<cls, given, previous>>
    /\ UNCHANGED <<emitterVars, pageVars>>

\* ClassTween(c, kfs, pos): calculateTween of class definition c
ClassTween(c, kfs, pos) ==
    IF c = SecondDefinition THEN calculateTween(kfs, pos)
    ELSE calculateTween1(kfs, pos)

\* what the caller of calculateTween observes, given the value computed for
\* each property: an exception thrown while a property is resolved ends the
\* call, otherwise interpolatedStyles is returned
Settle(interpolatedStyles) ==
    IF \E prop \in DOMAIN interpolatedStyles :
           interpolatedStyles[prop].ty = "throw"
    THEN [status |-> "threw", result |-> Thrown]
    ELSE [status |-> "returned", result |-> interpolatedStyles]

\* the outcome of instance.calculateTween(pos / 100) on the stored list kfs;
\* Object.keys(kf.styles) throws a TypeError for an entry without styles
Outcome(c, kfs, pos) ==
    IF \E i \in 1..Len(kfs) : "styles" \notin DOMAIN kfs[i]
    THEN [status |-> "threw", result |-> Thrown]
    ELSE Settle(ClassTween(c, kfs, pos))

\* what a calculateTween call adds to the history
Entry(pos, o) == [pos |-> pos, status |-> o.status, result |-> o.result]

\* a calculateTween that takes the keyframes it has passed off the stored
\* list (this.keyframes.shift()) while it looks for the bracketing pair
CalculateTween_Consuming(pos) ==
    /\ ~(call.op = "new" /\ status = "threw")
    /\ \E o \in {Outcome(cls, keyframes, pos)} :
           /\ status' = o.status
           /\ result' = o.result
           /\ tweens' = Logged(tweens, Entry(pos, o))
    /\ call' = [op |-> "calculateTween", pos |-> pos]
    /\ keyframes' = IF Len(keyframes) > 1
                         /\ keyframes[2].percent <= pos
                     THEN Tail(keyframes) ELSE keyframes
    /\ UNCHANGED <<cls, given, previous>>
    /\ UNCHANGED <<emitterVars, pageVars>>

\* instance.calculateTween(pos / 100)
CalculateTween(pos) ==
    /\ ~(call.op = "new" /\ status = "threw")
    /\ \E o \in {Outcome(cls, keyframes, pos)} :
           /\ status' = o.status
           /\ result' = o.result
           /\ tweens' = Logged(tweens, Entry(pos, o))
    /\ call' = [op |-> "calculateTween", pos |-> pos]
    /\ UNCHANGED <<cls, keyframes, given, previous>>
    /\ UNCHANGED <<emitterVars, pageVars>>

\* progress values, in hundredths
Positions == {-50, 0, 20, 25, 50, 70, 100, 150}

Tween == \E pos \in Positions : CalculateTween(pos)

\* the last call was calculateTween and it returned
Returned == call.op = "calculateTween" /\ status = "returned"
\* the percent that calculateTween derives from its argument
percentOf(pos) == Mul(Fin(pos, Hundred), Int2Num(Hundred))

Style1(p, v) == [x \in {p} |-> v]
Style2(p, v, q, w) == [x \in {p, q} |-> IF x = p THEN v ELSE w]
Style3(p, v, q, w, r, u) ==
    [x \in {p, q, r} |-> IF x = p THEN v ELSE IF x = q THEN w ELSE u]

(***************************************************************************)
(* Numeric keyframes: continuous properties holding unit strings.          *)
(***************************************************************************)
NumericStyles ==
    {Style1("width", DimV(0, "px")),
     Style1("width", DimV(100, "px"))}
NumericKeyframes ==
    {Keyframe(pc, st) : pc \in {0, 40, 100}, st \in NumericStyles}
    \cup {Keyframe(40, Style1("height", DimV(10, "px")))}

InitNumeric == Construct(ListsOver(NumericKeyframes))
SpecNumeric == InitNumeric /\ [][Tween]_vars

(***************************************************************************)
(* Discrete keyframes: the display property.                               *)
(***************************************************************************)
DiscreteStyles ==
    {Style1("display", TokenV("block")),
     Style1("display", TokenV("none")),
     Style1("display", TokenV("flex"))}
DiscreteKeyframes ==
    {Keyframe(pc, st) : pc \in {0, 50}, st \in DiscreteStyles}
    \cup {Keyframe(50, Style1("width", DimV(10, "px")))}

InitDiscrete == Construct(ListsOver(DiscreteKeyframes))
SpecDiscrete == InitDiscrete /\ [][Tween]_vars

(***************************************************************************)
(* Transform keyframes.                                                    *)
(***************************************************************************)
TransformStyles ==
    {Style1("transform", FuncsV(<<Fn("translateX", <<Arg(0, "px")>>)>>)),
     Style1("transform", FuncsV(<<Fn("translateX", <<Arg(10, "px")>>),
                                  Fn("rotate", <<Arg(10, "deg")>>)>>)),
     Style1("transform", FuncsV(<<Fn("rotate", <<Arg(30, "deg")>>)>>)),
     Style1("transform", FuncsV(<<Fn("translateX", <<Arg(100, "px")>>)>>))}
TransformKeyframes == {Keyframe(pc, st) : pc \in {0, 100}, st \in TransformStyles}

InitTransform == Construct(ListsOver(TransformKeyframes))
SpecTransform == InitTransform /\ [][Tween]_vars

(***************************************************************************)
(* Colour keyframes.                                                       *)
(***************************************************************************)
ColorStyles ==
    {Style1("color", HexV(0, 0, 0)),
     Style1("color", HexV(255, 255, 255)),
     Style1("color", HexV(255, 128, 0))}
ColorKeyframes ==
    {Keyframe(pc, st) : pc \in {0, 100}, st \in ColorStyles}
    \cup {Keyframe(40, Style1("color", HexV(16, 32, 48)))}

InitColor == Construct(ListsOver(ColorKeyframes))
SpecColor == InitColor /\ [][Tween]_vars

(***************************************************************************)
(* Mixed keyframes: several properties of every kind of value.             *)
(***************************************************************************)
MixedStyles ==
    {Style2("width", DimV(10, "px"), "opacity", NumberV(1)),
     Style2("display", TokenV("block"),
            "transform", FuncsV(<<Fn("translateX", <<Arg(0, "px")>>)>>)),
     Style3("display", TokenV("none"),
            "transform", FuncsV(<<Fn("translateX", <<Arg(10, "px")>>),
                                  Fn("rotate", <<Arg(10, "deg")>>)>>),
            "color", HexV(0, 0, 0)),
     Style2("opacity", NumberV(0), "width", TokenV("auto"))}
MixedKeyframes == {Keyframe(pc, st) : pc \in {0, 50}, st \in MixedStyles}

InitMixed == Construct(ListsOver(MixedKeyframes))
SpecMixed == InitMixed /\ [][Tween]_vars

(***************************************************************************)
(* Replacement: setKeyframes between calculateTween calls.                 *)
(***************************************************************************)
ReplaceKeyframes ==
    {Keyframe(0, Style1("width", DimV(0, "px"))),
     Keyframe(100, Style1("width", DimV(100, "px"))),
     Keyframe(50, Style2("color", HexV(0, 0, 0), "width", DimV(29, "px")))}

Init == Construct(ListsOver(ReplaceKeyframes))
Replace == \E kfs \in ListsOver(ReplaceKeyframes) : SetKeyframes(kfs)
Next == Tween \/ Replace
Spec == Init /\ [][Next]_vars

(***************************************************************************)
(* Arbitrary constructor arguments: values that are no array, the empty    *)
(* array, and arrays with an entry that has no styles.                     *)
(***************************************************************************)
AnyEntries ==
    {Keyframe(0, Style1("width", DimV(0, "px"))),
     Keyframe(100, Style1("width", DimV(100, "px"))),
     [percent |-> 50]}
AnyArguments ==
    {Undefined, NumberV(5), TokenV("keyframes"), ObjectV}
    \cup {ArrayV(<<>>)}
    \cup {ArrayV(kfs) : kfs \in ListsOver(AnyEntries)}

InitAny == ConstructAny(AnyArguments)
SpecAny == InitAny /\ [][Tween]_vars

(***************************************************************************)
(* The caller keeps and edits the array it passed.                         *)
(***************************************************************************)
AliasKeyframes ==
    {Keyframe(0, Style1("width", DimV(0, "px"))),
     Keyframe(40, Style1("width", DimV(50, "px"))),
     Keyframe(100, Style1("width", DimV(100, "px")))}

InitAlias == Construct(ListsOver(AliasKeyframes))
ReplaceAlias == \E kfs \in ListsOver(AliasKeyframes) : SetKeyframes(kfs)
EditAlias == CallerEdits(AliasKeyframes)
NextAlias == Tween \/ ReplaceAlias \/ EditAlias
SpecAlias == InitAlias /\ [][NextAlias]_vars

(***************************************************************************)
(* Ordering: lists with distinct keyframes of the same percent.            *)
(***************************************************************************)
OrderKeyframes ==
    {Keyframe(0, Style1("width", DimV(0, "px"))),
     Keyframe(0, Style1("width", DimV(100, "px"))),
     Keyframe(50, Style1("width", DimV(29, "px")))}

InitOrder == Construct(ListsOver(OrderKeyframes))
ReplaceOrder == \E kfs \in ListsOver(OrderKeyframes) : SetKeyframes(kfs)
NextOrder == Tween \/ ReplaceOrder
SpecOrder == InitOrder /\ [][NextOrder]_vars

(***************************************************************************)
(* Transform functions with several arguments.                             *)
(***************************************************************************)
Translate(x, y) ==
    FuncsV(<<Fn("translate", <<Arg(x, "px"), Arg(y, "px")>>)>>)
ArgsStyles ==
    {Style1("transform", Translate(0, 0)),
     Style1("transform", Translate(100, 50)),
     Style1("transform", Translate(10, 20))}
ArgsKeyframes == {Keyframe(pc, st) : pc \in {0, 100}, st \in ArgsStyles}

InitArgs == Construct(ListsOver(ArgsKeyframes))
SpecArgs == InitArgs /\ [][Tween]_vars

(***************************************************************************)
(* Filter keyframes: function strings under the filter property.           *)
(***************************************************************************)
Blur(n) == Fn("blur", <<Arg(n, "px")>>)
FilterStyles ==
    {Style1("filter", FuncsV(<<Blur(15)>>)),
     Style1("filter", FuncsV(<<Blur(0)>>)),
     Style1("filter", FuncsV(<<Blur(4), Fn("brightness", <<Arg(50, "%")>>)>>))}
FilterKeyframes == {Keyframe(pc, st) : pc \in {0, 100}, st \in FilterStyles}

InitFilter == Construct(ListsOver(FilterKeyframes))
SpecFilter == InitFilter /\ [][Tween]_vars

(***************************************************************************)
(* Unit keyframes: a continuous property with values of different units    *)
(* and a value that is no number, next to a property that interpolates.    *)
(***************************************************************************)
UnitStyles ==
    {Style2("width", DimV(10, "px"), "height", DimV(0, "px")),
     Style2("width", DimV(20, "em"), "height", DimV(100, "px")),
     Style1("width", TokenV("auto")),
     Style1("width", NumberV(30))}
UnitKeyframes == {Keyframe(pc, st) : pc \in {0, 100}, st \in UnitStyles}

InitUnit == Construct(ListsOver(UnitKeyframes))
SpecUnit == InitUnit /\ [][Tween]_vars

(***************************************************************************)
(* Keyframes whose transforms hold a function the other side lacks.        *)
(***************************************************************************)
NeutralStyles ==
    {Style1("transform", FuncsV(<<Fn("translateX", <<Arg(0, "px")>>)>>)),
     Style1("transform", FuncsV(<<Fn("translateX", <<Arg(10, "px")>>),
                                  Fn("rotate", <<Arg(10, "deg")>>)>>)),
     Style1("transform", FuncsV(<<Fn("translateX", <<Arg(10, "px")>>),
                                  Fn("scale", <<Arg(2, "")>>)>>)),
     Style1("transform", FuncsV(<<Fn("rotate", <<Arg(30, "deg")>>)>>))}
NeutralKeyframes == {Keyframe(pc, st) : pc \in {0, 100}, st \in NeutralStyles}

InitNeutral == Construct(ListsOver(NeutralKeyframes))
SpecNeutral == InitNeutral /\ [][Tween]_vars

(***************************************************************************)
(* Colour keyframes holding hsl and hsla colours.                          *)
(***************************************************************************)
HslStyles ==
    {Style1("color", HslV(0, 100, 50, "")),
     Style1("color", HslV(120, 100, 25, "")),
     Style1("color", HslV(120, 100, 25, "0.5")),
     Style1("color", HslV(210, 50, 40, "")),
     Style1("color", HexV(0, 0, 0))}
HslKeyframes == {Keyframe(pc, st) : pc \in {0, 100}, st \in HslStyles}

InitHsl == Construct(ListsOver(HslKeyframes))
SpecHsl == InitHsl /\ [][Tween]_vars

(***************************************************************************)
(* class DPEventEmitter (src/event-emitter/dp-event-emitter.js), which the *)
(* file defines twice: lines 1-62 (names suffixed 1) and lines 76-162.     *)
(* this.#events is modelled as a function from the event names to          *)
(* [has, list]: has tells whether the event has an entry, list is the      *)
(* listener array of the entry.                                            *)
(***************************************************************************)
FirstEmitter == "DPEventEmitter (lines 1-62)"
SecondEmitter == "DPEventEmitter (lines 76-162)"
EmitterClasses == {FirstEmitter, SecondEmitter}

Events == {"open", "close"}
NoEvents == [e \in Events |-> [has |-> FALSE, list |-> <<>>]]

\* Array.prototype.includes, indexOf (0 for -1) and splice(index, 1)
Includes(list, x) == \E i \in 1..Len(list) : list[i] = x
IndexOf(list, x) ==
    IF Includes(list, x)
    THEN CHOOSE i \in 1..Len(list) :
             list[i] = x /\ \A j \in 1..(i - 1) : list[j] # x
    ELSE 0
Splice(list, index) == SubSeq(list, 1, index - 1) \o SubSeq(list, index + 1, Len(list))

\* on that pushes the listener without looking for it in the array
on_Push(evs, event, listener) ==
    [evs EXCEPT ![event] =
         [has |-> TRUE,
          list |-> Append(IF evs[event].has THEN evs[event].list ELSE <<>>,
                          listener)]]

\* on(event, listener), lines 90-102, for a listener that is a function
on(evs, event, listener) ==
    LET listeners == IF evs[event].has THEN evs[event].list ELSE <<>>
    IN  [evs EXCEPT ![event] =
             [has |-> TRUE,
              list |-> IF ~Includes(listeners, listener)
                       THEN Append(listeners, listener) ELSE listeners]]

\* off(event, listener), lines 110-125
off(evs, event, listener) ==
    IF ~evs[event].has THEN evs
    ELSE LET listeners == evs[event].list
             index == IndexOf(listeners, listener)
         IN  IF index = 0 THEN evs
             ELSE IF Len(Splice(listeners, index)) = 0
                  THEN [evs EXCEPT ![event] = [has |-> FALSE, list |-> <<>>]]
                  ELSE [evs EXCEPT ![event].list = Splice(listeners, index)]

\* on(event, listener), lines 15-26, for a listener that is a function
on1(evs, event, listener) ==
    LET listeners == IF evs[event].has THEN evs[event].list ELSE <<>>
    IN  [evs EXCEPT ![event] =
             [has |-> TRUE,
              list |-> IF ~Includes(listeners, listener)
                       THEN Append(listeners, listener) ELSE listeners]]

\* off(event, listener), lines 34-44
off1(evs, event, listener) ==
    IF ~evs[event].has THEN evs
    ELSE LET index == IndexOf(evs[event].list, listener)
         IN  IF index # 0
             THEN [evs EXCEPT ![event].list = Splice(evs[event].list, index)]
             ELSE evs

\* removeAllListeners(event), lines 154-161: a truthy event loses its
\* entry, a missing one clears the map.  The arrays of the entries are
\* left as they are.
AllEvents == "undefined"
removeAllListeners(evs, event) ==
    IF event # AllEvents
    THEN [evs EXCEPT ![event] = [has |-> FALSE, list |-> <<>>]]
    ELSE [e \in Events |-> [has |-> FALSE, list |-> <<>>]]

ClassOn(c, evs, event, listener) ==
    IF c = SecondEmitter THEN on(evs, event, listener) ELSE on1(evs, event, listener)
ClassOff(c, evs, event, listener) ==
    IF c = SecondEmitter THEN off(evs, event, listener) ELSE off1(evs, event, listener)

(***************************************************************************)
(* The listener functions the caller registers.  A listener is named by    *)
(* what its body does with the emitter when it is called for an event.     *)
(***************************************************************************)
Listeners == {"a", "b", "offSelf", "offA", "onB", "removeAll"}

\* the body of listener l, run by emit for event.  "removeAll" calls
\* this.removeAllListeners(event), a method only lines 76-162 define.
RunListener(c, evs, event, l) ==
    CASE l = "offSelf" -> ClassOff(c, evs, event, "offSelf")
      [] l = "offA" -> ClassOff(c, evs, event, "a")
      [] l = "onB" -> ClassOn(c, evs, event, "b")
      [] l = "removeAll" -> removeAllListeners(evs, event)
      [] OTHER -> evs

\* the body of listener l raises an error in class c: the listener that
\* throws, and the call of a method the class does not have
Throwing == "throws"
Raises(c, l) == l = Throwing \/ (l = "removeAll" /\ c = FirstEmitter)

\* the array that emit iterates, after the body of listener l: off splices
\* it in place, on pushes to it, removeAllListeners leaves it alone
IteratedAfter(array, evs, event, l) ==
    IF l = "removeAll" THEN array ELSE evs[event].list

MaxListeners == 2

\* no TweenCalculator has been constructed
NoTween ==
    /\ cls = "none"
    /\ keyframes = <<>>
    /\ given = <<>>
    /\ previous = <<>>
    /\ call = [op |-> "none", pos |-> 0]
    /\ status = "returned"
    /\ result = Null
    /\ tweens = Stored(<<>>)

\* new DPEventEmitter()
ConstructEmitter ==
    /\ emitterCls \in EmitterClasses
    /\ events = NoEvents
    /\ frame = [pc |-> "idle"]
    /\ ecall = [op |-> "new"]
    /\ NoTween
    /\ NoPage

\* emitter.on(event, listener), called outside emit
On(event, listener) ==
    /\ frame.pc # "running"
    /\ \/ Len(events[event].list) < MaxListeners
       \/ Includes(events[event].list, listener)
    /\ events' = ClassOn(emitterCls, events, event, listener)
    /\ ecall' = [op |-> "on", event |-> event, listener |-> listener]
    /\ frame' = [pc |-> "idle"]
    /\ UNCHANGED <<emitterCls, tweenVars, pageVars>>

\* emitter.off(event, listener), called outside emit
Off(event, listener) ==
    /\ frame.pc # "running"
    /\ events' = ClassOff(emitterCls, events, event, listener)
    /\ ecall' = [op |-> "off", event |-> event, listener |-> listener]
    /\ frame' = [pc |-> "idle"]
    /\ UNCHANGED <<emitterCls, tweenVars, pageVars>>

\* emitter.removeAllListeners(event) or removeAllListeners(), called
\* outside emit on an instance of lines 76-162
RemoveAllListeners(event) ==
    /\ frame.pc # "running"
    /\ emitterCls = SecondEmitter
    /\ events' = removeAllListeners(events, event)
    /\ ecall' = [op |-> "removeAllListeners", event |-> event, listener |-> ""]
    /\ frame' = [pc |-> "idle"]
    /\ UNCHANGED <<emitterCls, tweenVars, pageVars>>

\* emitter.emit(event) up to the loop: the early return, or the locals
\* listeners (the entry's own array, not a copy), i = 0 and n = its length.
\* bound and called are history: the listeners bound at this point, and the
\* listeners called so far.
EmitStart(event) ==
    /\ frame.pc # "running"
    /\ ecall' = [op |-> "emit", event |-> event, listener |-> ""]
    /\ frame' =
         [pc |-> IF \/ ~events[event].has
                    \/ emitterCls = SecondEmitter /\ Len(events[event].list) = 0
                 THEN "returned" ELSE "running",
          event |-> event,
          listeners |-> events[event].list,
          attached |-> events[event].has,
          i |-> 0,
          n |-> Len(events[event].list),
          bound |-> events[event].list,
          called |-> <<>>,
          caught |-> 0,
          value |-> IF emitterCls = SecondEmitter THEN "false" ELSE "undefined"]
    /\ UNCHANGED <<emitterCls, events, tweenVars, pageVars>>

\* one turn of emit's for loop, or its end.  listeners[i] is undefined when
\* the array has been shortened below i + 1: calling it raises a TypeError.
\* That error, and the error of a throwing listener, leaves emit in lines
\* 51-61 and is caught and logged in lines 137-143.  value is what emit
\* returns: nothing in lines 51-61, true after the loop of lines 137-143.
EmitNext ==
    /\ frame.pc = "running"
    /\ IF frame.i >= frame.n
       THEN /\ frame' = [frame EXCEPT !.pc = "returned",
                                      !.value = IF emitterCls = SecondEmitter
                                                THEN "true" ELSE "undefined"]
            /\ UNCHANGED events
       ELSE IF frame.i + 1 > Len(frame.listeners)
       THEN /\ frame' = IF emitterCls = SecondEmitter
                        THEN [frame EXCEPT !.i = @ + 1, !.caught = @ + 1]
                        ELSE [frame EXCEPT !.pc = "threw"]
            /\ UNCHANGED events
       ELSE IF Raises(emitterCls, frame.listeners[frame.i + 1])
       THEN /\ frame' = IF emitterCls = SecondEmitter
                        THEN [frame EXCEPT !.i = @ + 1, !.caught = @ + 1,
                                           !.called = Append(@, frame.listeners[frame.i + 1])]
                        ELSE [frame EXCEPT !.pc = "threw",
                                           !.called = Append(@, frame.listeners[frame.i + 1])]
            /\ UNCHANGED events
       ELSE \E evs \in {RunListener(emitterCls, events, frame.event,
                                    frame.listeners[frame.i + 1])} :
                /\ events' = evs
                /\ frame' = [frame EXCEPT
                                !.i = @ + 1,
                                !.called = Append(@, frame.listeners[frame.i + 1]),
                                !.listeners =
                                    IF frame.attached
                                    THEN IteratedAfter(@, evs, frame.event,
                                                       frame.listeners[frame.i + 1])
                                    ELSE @,
                                !.attached = @ /\ evs[frame.event].has]
    /\ UNCHANGED <<emitterCls, ecall, tweenVars, pageVars>>

InitEmitter == ConstructEmitter
Bind == \E event \in Events, listener \in Listeners : On(event, listener)
Unbind == \E event \in Events, listener \in Listeners : Off(event, listener)
Trigger == \E event \in Events : EmitStart(event)
Clear == \E event \in Events \cup {AllEvents} : RemoveAllListeners(event)
NextEmitter == Bind \/ Unbind \/ Clear \/ Trigger \/ EmitNext
SpecEmitter == InitEmitter /\ [][NextEmitter]_vars

(***************************************************************************)
(* The emitter with a listener that throws among those bound.              *)
(***************************************************************************)
BindThrowing == \E event \in Events, listener \in {"a", "b", Throwing} : On(event, listener)
NextThrowing == BindThrowing \/ Unbind \/ Clear \/ Trigger \/ EmitNext
SpecThrowing == InitEmitter /\ [][NextThrowing]_vars

(***************************************************************************)
(* class DPAnimateXPos.  Two files hold the class:                         *)
(* src/animator/src/dp-animate-x-pos.js, modelled under the source's       *)
(* names, and src/animator/dp-animate-x-pos.js, modelled under the same    *)
(* names with the suffix Root.  The instance is one built after another    *)
(* instance ran the frame-rate test (ranFPSTest is true), or the first     *)
(* instance of the module, whose constructor starts the test.              *)
(*                                                                         *)
(* Time is counted in frames: the timestamp handed to the callbacks of     *)
(* frame k is k * 16.66 ms, so that timeDelta / 16.66 is a difference of   *)
(* frame numbers.  A frame runs the callbacks requested before it, one     *)
(* after the other, with the same timestamp; callers act between frames.   *)
(***************************************************************************)
SrcAnimator == "DPAnimateXPos (src/animator/src/dp-animate-x-pos.js)"
RootAnimator == "DPAnimateXPos (src/animator/dp-animate-x-pos.js)"
AnimatorClasses == {SrcAnimator, RootAnimator}

\* the values of a time parameter or of #prevTime
TimeUndefined == [k |-> "undefined", t |-> 0]
TimeNull == [k |-> "null", t |-> 0]
TimeAt(t) == [k |-> "time", t |-> t]

RECURSIVE IntPow(_, _)
IntPow(b, n) == IF n = 0 THEN 1 ELSE b * IntPow(b, n - 1)
IsSquare(k) == \E r \in 0..k : r * r = k
SqrtOf(k) == CHOOSE r \in 0..k : r * r = k

\* Math.pow(base, exponent) has a rational value
PowExact(base, exponent) ==
    /\ base.c = "fin" /\ exponent.c = "fin" /\ base.n >= 0 /\ exponent.n >= 0
    /\ \/ exponent.d = 1
       \/ exponent.d = 2 /\ IsSquare(base.n) /\ IsSquare(base.d)

\* Math.pow(base, exponent) where PowExact holds
MathPow(base, exponent) ==
    IF exponent.d = 1
    THEN Fin(IntPow(base.n, exponent.n), IntPow(base.d, exponent.n))
    ELSE Fin(IntPow(SqrtOf(base.n), exponent.n), IntPow(SqrtOf(base.d), exponent.n))

\* the literal 0.20 of line 196
FinishThreshold == Fin(1, 5)

\* #finishAnimation(); emitted counts the 'animationDidFinish' events
\* emitted since the last animation was started
finishAnimation(a) ==
    [a EXCEPT !.isAnimating = FALSE,
              !.velocity = Int2Num(0),
              !.prevTime = TimeNull,
              !.currentX = a.targetX,
              !.emitted = @ + 1]

\* lines 184-187: the velocity after attraction and friction
pulledVelocity(a, timeDeltaFactor) ==
    Mul(Add(a.velocity,
            Mul(Mul(Sub(a.targetX, a.currentX), a.attraction), timeDeltaFactor)),
        MathPow(a.frictionFactor, timeDeltaFactor))

\* line 190: the velocity applied to the position
moved(a, velocity, timeDeltaFactor) ==
    [a EXCEPT !.velocity = velocity,
              !.currentX = Add(a.currentX, Mul(velocity, timeDeltaFactor))]

\* lines 195-205: finish within the threshold, otherwise request a frame
settleOrRequest(a) ==
    IF Lt(MathAbs(Sub(a.currentX, a.targetX)), FinishThreshold)
    THEN finishAnimation(a)
    ELSE [a EXCEPT !.requested = @ + 1]

\* both times are known, lines 166 (and 165 of the other file)
Measured(a, time) == time.k # "undefined" /\ a.prevTime.k # "undefined"

\* timeDeltaFactor of lines 159-172; null converts to 0 in time - #prevTime
timeDeltaFactorOf(a, time) ==
    IF Measured(a, time) THEN Int2Num(time.t - a.prevTime.t)
    ELSE a.defaultTimeDeltaFactor

\* lines 174-205 for a known timeDeltaFactor
animateWith(a, time, timeDeltaFactor) ==
    settleOrRequest(
        moved([a EXCEPT !.prevTime = time,
                        !.defaultTimeDeltaFactor =
                            IF Measured(a, time)
                            THEN Div(Add(@, timeDeltaFactor), Int2Num(2)) ELSE @],
              pulledVelocity(a, timeDeltaFactor), timeDeltaFactor))

\* #animateToTarget(time, requestFrame = true)
animateToTarget(a, time) ==
    IF ~a.isAnimating THEN a
    ELSE animateWith(a, time, timeDeltaFactorOf(a, time))

\* animateToXPos(target, velocity) with velocity left out
animateToXPos(a, target) ==
    IF a.isAnimating THEN a
    ELSE animateToTarget([a EXCEPT !.targetX = target,
                                   !.velocity = Int2Num(0),
                                   !.isAnimating = TRUE,
                                   !.emitted = 0], TimeUndefined)

\* jumpToXPos(xPos), with jumpToTarget()
jumpToXPos(a, xPos) == [a EXCEPT !.targetX = xPos, !.currentX = xPos]

\* stopAnimation()
stopAnimation(a) == [a EXCEPT !.isAnimating = FALSE]

\* the sum of a list of numbers, as reduce((a, b) => a + b) gives it
RECURSIVE Total(_)
Total(list) == IF Len(list) = 1 THEN list[1] ELSE Add(list[1], Total(Tail(list)))

\* time - #prevTime: undefined converts to NaN and null to 0
timeDeltaOf(time, prevTime) ==
    IF time.k = "undefined" \/ prevTime.k = "undefined" THEN NaN
    ELSE Int2Num(time.t - prevTime.t)

\* lines 89-102 (and 93-104 of the other file): the interval since
\* #prevTime is pushed when it is truthy, and the next frame is requested;
\* performance.now() is the time of the running frame
measureInterval(a, time) ==
    [a EXCEPT !.prevTime = IF time.k = "undefined" \/ time.t = 0
                           THEN TimeAt(a.now) ELSE time,
              !.animationIntervals =
                  IF timeDeltaOf(time, a.prevTime) \in {NaN, Int2Num(0)} THEN @
                  ELSE Append(@, timeDeltaOf(time, a.prevTime)),
              !.measure = "requested"]

\* the literal 12 of line 71
IntervalsNeeded == 12

\* #getDeviceAnimationInterval(time), lines 67-103
getDeviceAnimationInterval(a, time) ==
    IF Len(a.animationIntervals) >= IntervalsNeeded
    THEN [a EXCEPT !.animationIntervals = Tail(Tail(@)),
                   !.defaultTimeDeltaFactor =
                       Div(Total(Tail(Tail(a.animationIntervals))),
                           Int2Num(Len(a.animationIntervals) - 2)),
                   !.prevTime = TimeNull]
    ELSE measureInterval(a, time)

\* setAttraction(attraction), lines 240-242
setAttraction(a, attraction) == [a EXCEPT !.attraction = attraction]

\* setFriction(friction), lines 248-252
setFriction(a, friction) ==
    [a EXCEPT !.friction = friction,
              !.frictionFactor = Sub(Int2Num(1), friction)]

(***************************************************************************)
(* src/animator/dp-animate-x-pos.js.  IDEAL_FPS_INTERVAL and               *)
(* FINISH_THRESHOLD are static fields of the class: the bare name          *)
(* IDEAL_FPS_INTERVAL of line 180 is no binding in scope, so evaluating it *)
(* raises a ReferenceError, and _.FINISH_THRESHOLD of line 197 reads the   *)
(* instance, where it is undefined, so the comparison is false.            *)
(***************************************************************************)
\* lines 183-206 with fpsMultiplier = defaultFPSMultiplier
settleOrRequestRoot(a) == [a EXCEPT !.requested = @ + 1]

\* #animateToTarget(time, requestFrame = true), lines 156-207
animateToTargetRoot(a, time) ==
    IF ~a.isAnimating THEN a
    ELSE IF ~Measured(a, time)
    THEN [a EXCEPT !.prevTime = time, !.requested = @ + 1]
    ELSE IF time.t - a.prevTime.t # 0
    THEN [a EXCEPT !.prevTime = time, !.threw = TRUE]
    ELSE settleOrRequestRoot(
             moved([a EXCEPT !.prevTime = time],
                   pulledVelocity(a, a.defaultTimeDeltaFactor),
                   a.defaultTimeDeltaFactor))

\* animateToXPos(target, velocity), lines 112-128
animateToXPosRoot(a, target) ==
    IF a.isAnimating
    THEN [a EXCEPT !.targetX = target, !.velocity = Int2Num(0)]
    ELSE animateToTargetRoot([a EXCEPT !.targetX = target,
                                       !.velocity = Int2Num(0),
                                       !.isAnimating = TRUE,
                                       !.emitted = 0], TimeUndefined)

\* the literal 10 of line 80
IntervalsNeededRoot == 10

\* #getDeviceAnimationInterval(time), lines 76-105: with ten intervals,
\* line 88 evaluates the bare name IDEAL_FPS_INTERVAL and raises a
\* ReferenceError before anything is written
getDeviceAnimationIntervalRoot(a, time) ==
    IF Len(a.animationIntervals) >= IntervalsNeededRoot
    THEN [a EXCEPT !.threw = TRUE]
    ELSE measureInterval(a, time)

ClassGetDeviceAnimationInterval(a, time) ==
    IF a.cls = SrcAnimator THEN getDeviceAnimationInterval(a, time)
    ELSE getDeviceAnimationIntervalRoot(a, time)

\* setAttraction(attraction), lines 239-241, and setFriction(friction),
\* lines 247-251
setAttractionRoot(a, attraction) == [a EXCEPT !.attraction = attraction]
setFrictionRoot(a, friction) ==
    [a EXCEPT !.friction = friction,
              !.frictionFactor = Sub(Int2Num(1), friction)]

ClassSetAttraction(a, attraction) ==
    IF a.cls = SrcAnimator THEN setAttraction(a, attraction)
    ELSE setAttractionRoot(a, attraction)
ClassSetFriction(a, friction) ==
    IF a.cls = SrcAnimator THEN setFriction(a, friction)
    ELSE setFrictionRoot(a, friction)

ClassAnimateToXPos(a, target) ==
    IF a.cls = SrcAnimator THEN animateToXPos(a, target) ELSE animateToXPosRoot(a, target)
ClassAnimateToTarget(a, time) ==
    IF a.cls = SrcAnimator THEN animateToTarget(a, time) ELSE animateToTargetRoot(a, time)

\* the exponent Math.pow is given when the step integrates
ClassExponent(a, time) ==
    IF a.cls = SrcAnimator THEN timeDeltaFactorOf(a, time) ELSE a.defaultTimeDeltaFactor

(***************************************************************************)
(* The animator as a state machine.  requested counts the frame callbacks  *)
(* requested for the next frame, due those of the running frame that have  *)
(* not run yet (both count callbacks of #animateToTarget); measure tells   *)
(* whether the callback of #getDeviceAnimationInterval is requested or     *)
(* due; steps counts the #animateToTarget calls that found the             *)
(* animation running; op, ran, asked and threw describe the last step:     *)
(* ran says that it found the animation running (or started it), asked     *)
(* that it requested a frame.                                              *)
(***************************************************************************)
MaxSteps == 3
MaxRequests == 2
MaxFactor == 2
Targets == {0, 1}

NoOthers == NoTween /\ NoEmitter

\* the instance of class c before lines 56-59 of its constructor
Constructed(c) ==
    [cls |-> c, isAnimating |-> FALSE, targetX |-> Int2Num(0),
     currentX |-> Int2Num(0), velocity |-> Int2Num(0),
     attraction |-> Int2Num(1), friction |-> Fin(3, 4),
     frictionFactor |-> Sub(Int2Num(1), Fin(3, 4)),
     prevTime |-> TimeUndefined, defaultTimeDeltaFactor |-> Int2Num(1),
     animationIntervals |-> <<>>, measure |-> "none",
     requested |-> 0, due |-> 0, now |-> 0, emitted |-> 0, steps |-> 0,
     op |-> "new", ran |-> FALSE, asked |-> FALSE, threw |-> FALSE]

\* new DPAnimateXPos(carousel, element, 0, 1, 0.75) in a module whose
\* default factor is 1: the first instance of the module (ranFPSTest is
\* false) starts the frame-rate test, a later one does not
ConstructAnimator ==
    /\ animator \in
         {IF ranFPSTest THEN Constructed(c)
          ELSE ClassGetDeviceAnimationInterval(Constructed(c), TimeUndefined) :
              c \in AnimatorClasses, ranFPSTest \in BOOLEAN}
    /\ physics = [cls |-> "none"]
    /\ trap = [cls |-> "none"]
    /\ NoOthers

\* a call that finds the animation running is within the bound on steps,
\* and it integrates only with a rational Math.pow whose exponent is at
\* most MaxFactor frames
CanStep(a, time) ==
    a.isAnimating =>
        /\ a.steps < MaxSteps
        /\ (a.cls = SrcAnimator \/ Measured(a, time))
               => /\ PowExact(a.frictionFactor, ClassExponent(a, time))
                  /\ ClassExponent(a, time).n
                         <= MaxFactor * ClassExponent(a, time).d

\* no callback of a running frame is waiting
BetweenFrames == animator.due = 0 /\ animator.measure # "due"

\* animator.animateToXPos(target), called between frames
AnimateToXPos(target) ==
    /\ animator.cls # "none" /\ BetweenFrames
    /\ animator.requested < MaxRequests
    /\ CanStep([animator EXCEPT !.isAnimating = ~@], TimeUndefined)
    /\ \E a \in {ClassAnimateToXPos([animator EXCEPT !.threw = FALSE], Int2Num(target))} :
           animator' = [a EXCEPT !.op = "animateToXPos", !.ran = ~animator.isAnimating,
                                 !.asked = a.requested > animator.requested,
                                 !.steps = IF animator.isAnimating THEN @ ELSE @ + 1]
    /\ UNCHANGED <<tweenVars, emitterVars, physics, trap>>

\* animator.jumpToXPos(xPos), called between frames
JumpToXPos(xPos) ==
    /\ animator.cls # "none" /\ BetweenFrames
    /\ animator' = [jumpToXPos(animator, Int2Num(xPos)) EXCEPT
                       !.op = "jumpToXPos", !.ran = FALSE, !.asked = FALSE,
                       !.threw = FALSE]
    /\ UNCHANGED <<tweenVars, emitterVars, physics, trap>>

\* animator.stopAnimation(), called between frames
StopAnimation ==
    /\ animator.cls # "none" /\ BetweenFrames
    /\ animator' = [stopAnimation(animator) EXCEPT
                       !.op = "stopAnimation", !.ran = FALSE, !.asked = FALSE,
                       !.threw = FALSE]
    /\ UNCHANGED <<tweenVars, emitterVars, physics, trap>>

\* animator.setAttraction(attraction), called between frames
SetAttraction(attraction) ==
    /\ animator.cls # "none" /\ BetweenFrames
    /\ animator' = [ClassSetAttraction(animator, attraction) EXCEPT
                       !.op = "setAttraction", !.ran = FALSE, !.asked = FALSE,
                       !.threw = FALSE]
    /\ UNCHANGED <<tweenVars, emitterVars, physics, trap>>

\* animator.setFriction(friction), called between frames
SetFriction(friction) ==
    /\ animator.cls # "none" /\ BetweenFrames
    /\ animator' = [ClassSetFriction(animator, friction) EXCEPT
                       !.op = "setFriction", !.ran = FALSE, !.asked = FALSE,
                       !.threw = FALSE]
    /\ UNCHANGED <<tweenVars, emitterVars, physics, trap>>

\* the browser starts a frame: the requested callbacks become due
BeginFrame ==
    /\ animator.cls # "none" /\ BetweenFrames
    /\ animator.requested > 0 \/ animator.measure = "requested"
    /\ animator' = [animator EXCEPT !.now = @ + 1, !.due = animator.requested,
                                    !.requested = 0, !.op = "frame",
                                    !.measure = IF @ = "requested" THEN "due" ELSE @,
                                    !.ran = FALSE, !.asked = FALSE, !.threw = FALSE]
    /\ UNCHANGED <<tweenVars, emitterVars, physics, trap>>

\* the browser runs time => _.#getDeviceAnimationInterval(time).  The
\* constructor requested it before any other callback and it asks for the
\* next frame each time it runs, so it is the first callback of its frame.
MeasureCallback ==
    /\ animator.cls # "none" /\ animator.measure = "due"
    /\ animator' = ClassGetDeviceAnimationInterval(
                       [animator EXCEPT !.measure = "none", !.op = "measure",
                                        !.ran = FALSE, !.asked = FALSE,
                                        !.threw = FALSE],
                       TimeAt(animator.now))
    /\ UNCHANGED <<tweenVars, emitterVars, physics, trap>>

\* the browser runs the next due callback time => _.#animateToTarget(time)
FrameCallback ==
    /\ animator.cls # "none" /\ animator.due > 0 /\ animator.measure # "due"
    /\ CanStep(animator, TimeAt(animator.now))
    /\ \E a \in {ClassAnimateToTarget([animator EXCEPT !.threw = FALSE],
                                      TimeAt(animator.now))} :
           animator' = [a EXCEPT !.due = @ - 1, !.op = "callback",
                                 !.ran = animator.isAnimating,
                                 !.asked = a.requested > animator.requested,
                                 !.steps = IF animator.isAnimating THEN @ + 1 ELSE @]
    /\ UNCHANGED <<tweenVars, emitterVars, physics, trap>>

InitAnimator == ConstructAnimator
Animate == \E target \in Targets : AnimateToXPos(target)
Jump == \E xPos \in Targets : JumpToXPos(xPos)
Attractions == {Fin(1, 2)}
Frictions == {Fin(1, 2)}
Attract == \E attraction \in Attractions : SetAttraction(attraction)
Rub == \E friction \in Frictions : SetFriction(friction)
NextAnimator ==
    Animate \/ Jump \/ StopAnimation \/ Attract \/ Rub \/ BeginFrame
        \/ MeasureCallback \/ FrameCallback
SpecAnimator == InitAnimator /\ [][NextAnimator]_vars

(***************************************************************************)
(* class PhysicsAnimator (src/unnamed/part_001).  The instance is          *)
(* new PhysicsAnimator({ attraction: 1, friction: 0.5 }).  Every call of   *)
(* animateTo is a run: it has its own promise, its own startValue and      *)
(* callback and its own closure animate, and all runs share the fields of  *)
(* the instance.  runs[i].calls lists the objects handed to the callback   *)
(* of run i, resolved says that resolve() of its promise was called and    *)
(* settled how many callback calls had been made by then.  queue lists the *)
(* runs whose closure is requested for the next frame, in the order of     *)
(* the requests, and dueq those still to run in the current frame.  Time   *)
(* is counted in frames of 16.66 ms, as above.  steps counts the closure    *)
(* calls that integrated a step, and threw says that the last call raised  *)
(* an Error.                                                               *)
(***************************************************************************)
PhysicsClass == "PhysicsAnimator"
MaxRuns == 2
MaxIntegrations == 4
Values == {0, 1}

\* the literal 0.01 of line 88
DoneThreshold == Fin(1, 100)

\* lines 63-73: force, velocity, friction, current value.  Every
\* intermediate value of the source is bound once, as the source computes it.
physicsStep(p, timeDeltaFactor) ==
    CHOOSE next \in
        {[p EXCEPT !.velocity = velocity,
                   !.currentValue = Add(p.currentValue,
                                        Mul(velocity, timeDeltaFactor))] :
            velocity \in
                {Mul(pulled, MathPow(p.frictionFactor, timeDeltaFactor)) :
                    pulled \in
                        {Add(p.velocity, Mul(force, timeDeltaFactor)) :
                            force \in {Mul(Sub(p.targetValue, p.currentValue),
                                           p.attraction)}}}} : TRUE

\* lines 75-81: progress of the run that started at startValue
progressOf(p, startValue) ==
    CHOOSE progress \in
        {IF totalDistance # Int2Num(0)
         THEN Div(Sub(p.currentValue, startValue), totalDistance)
         ELSE Int2Num(0) :
            totalDistance \in {Sub(p.targetValue, startValue)}} : TRUE

\* callback(value) of run i
callbackOf(p, i, value) ==
    [p EXCEPT !.runs[i].calls = Append(@, value)]

\* lines 87-95 for run i, after its callback was told the position: the
\* animation completes or the closure requests the next frame
settleOrRequestRun(p, i) ==
    IF Lt(MathAbs(Sub(p.currentValue, p.targetValue)), DoneThreshold)
    THEN [p EXCEPT !.isAnimating = FALSE,
                   !.runs[i].calls = Append(@, [position |-> p.targetValue,
                                                progress |-> Int2Num(1)]),
                   !.runs[i].resolved = TRUE,
                   !.runs[i].settled = Len(p.runs[i].calls) + 1]
    ELSE [p EXCEPT !.queue = Append(@, i)]

\* lines 58-95 for run i: the step, the callback, then completion or the
\* next request
stepAndReport(p, i, time) ==
    CHOOSE next \in
        {settleOrRequestRun(told, i) :
            told \in
                {callbackOf(stepped, i,
                            [position |-> stepped.currentValue,
                             progress |-> progressOf(stepped,
                                                     stepped.runs[i].startValue)]) :
                    stepped \in {physicsStep([p EXCEPT !.prevTime = time],
                                             Int2Num(time.t - p.prevTime.t))}}} :
            TRUE

\* the closure animate(time) of run i, lines 49-96
animate(p, i, time) ==
    IF ~p.isAnimating THEN p
    ELSE IF p.prevTime = TimeNull
    THEN [p EXCEPT !.prevTime = time, !.queue = Append(@, i)]
    ELSE stepAndReport(p, i, time)

\* animateTo(startValue, endValue, velocity, callback), lines 39-101
animateTo(p, startValue, endValue, velocity) ==
    [p EXCEPT !.currentValue = startValue, !.targetValue = endValue,
              !.velocity = velocity, !.isAnimating = TRUE,
              !.prevTime = TimeNull,
              !.runs = Append(@, [startValue |-> startValue, endValue |-> endValue,
                                  calls |-> <<>>, resolved |-> FALSE,
                                  settled |-> 0]),
              !.queue = Append(@, Len(p.runs) + 1)]

\* stop(), lines 106-108
stop(p) == [p EXCEPT !.isAnimating = FALSE]

\* the test of lines 13, 17, 115 and 126 on a number
OutOfRange(x) == Lt(x, Int2Num(0)) \/ Lt(Int2Num(1), x)

\* PhysicsAnimator.setAttraction(attraction), lines 114-119; threw says
\* that the call raised the Error of line 116
setAttractionPhysics(p, attraction) ==
    IF OutOfRange(attraction) THEN [p EXCEPT !.threw = TRUE]
    ELSE [p EXCEPT !.attraction = attraction]

\* PhysicsAnimator.setFriction(friction), lines 125-131
setFrictionPhysics(p, friction) ==
    IF OutOfRange(friction) THEN [p EXCEPT !.threw = TRUE]
    ELSE [p EXCEPT !.friction = friction,
                   !.frictionFactor = Sub(Int2Num(1), friction)]

\* new PhysicsAnimator({ attraction: 1, friction: 0.5 }), lines 10-31
ConstructPhysics ==
    /\ physics = [cls |-> PhysicsClass, attraction |-> Int2Num(1),
                  friction |-> Fin(1, 2),
                  frictionFactor |-> Sub(Int2Num(1), Fin(1, 2)),
                  velocity |-> Int2Num(0), currentValue |-> Int2Num(0),
                  targetValue |-> Int2Num(0), isAnimating |-> FALSE,
                  prevTime |-> TimeNull, runs |-> <<>>, queue |-> <<>>,
                  dueq |-> <<>>, now |-> 0, steps |-> 0, threw |-> FALSE,
                  op |-> "new"]
    /\ animator = [cls |-> "none"]
    /\ trap = [cls |-> "none"]
    /\ NoOthers

\* physics.animateTo(startValue, endValue, 0, callback), called between frames
AnimateTo(startValue, endValue) ==
    /\ physics.cls # "none" /\ physics.dueq = <<>>
    /\ Len(physics.runs) < MaxRuns
    /\ physics' = [animateTo(physics, Int2Num(startValue), Int2Num(endValue),
                             Int2Num(0)) EXCEPT !.op = "animateTo",
                                                 !.threw = FALSE]
    /\ UNCHANGED <<tweenVars, emitterVars, animator, trap>>

\* physics.stop(), called between frames
Stop ==
    /\ physics.cls # "none" /\ physics.dueq = <<>>
    /\ physics' = [stop(physics) EXCEPT !.op = "stop", !.threw = FALSE]
    /\ UNCHANGED <<tweenVars, emitterVars, animator, trap>>

\* physics.setAttraction(attraction), called between frames
PhysicsSetAttraction(attraction) ==
    /\ physics.cls # "none" /\ physics.dueq = <<>>
    /\ physics' = setAttractionPhysics(
                      [physics EXCEPT !.op = "setAttraction", !.threw = FALSE],
                      attraction)
    /\ UNCHANGED <<tweenVars, emitterVars, animator, trap>>

\* physics.setFriction(friction), called between frames
PhysicsSetFriction(friction) ==
    /\ physics.cls # "none" /\ physics.dueq = <<>>
    /\ physics' = setFrictionPhysics(
                      [physics EXCEPT !.op = "setFriction", !.threw = FALSE],
                      friction)
    /\ UNCHANGED <<tweenVars, emitterVars, animator, trap>>

\* the browser starts a frame: the requested closures become due
PhysicsFrame ==
    /\ physics.cls # "none" /\ physics.dueq = <<>>
    /\ physics.queue # <<>>
    /\ physics' = [physics EXCEPT !.now = @ + 1, !.dueq = physics.queue,
                                  !.queue = <<>>, !.op = "frame",
                                  !.threw = FALSE]
    /\ UNCHANGED <<tweenVars, emitterVars, animator, trap>>

\* the closure reaches line 58: it integrates a step
Integrates(p) == p.isAnimating /\ p.prevTime # TimeNull

\* the browser runs the next due closure with the frame's timestamp; steps
\* counts the closure calls that integrate
PhysicsCallback ==
    /\ physics.cls # "none" /\ physics.dueq # <<>>
    /\ Integrates(physics) => physics.steps < MaxIntegrations
    /\ \E p \in {[physics EXCEPT !.dueq = Tail(@), !.op = "callback",
                                  !.threw = FALSE,
                                  !.steps = IF Integrates(physics)
                                            THEN @ + 1 ELSE @]} :
           physics' = animate(p, Head(physics.dueq), TimeAt(physics.now))
    /\ UNCHANGED <<tweenVars, emitterVars, animator, trap>>

InitPhysics == ConstructPhysics
StartRun == \E startValue \in Values, endValue \in Values :
                AnimateTo(startValue, endValue)
PhysicsAttractions == {Fin(1, 2), Int2Num(2)}
PhysicsFrictions == {Fin(3, 4), Int2Num(2)}
PhysicsAttract == \E attraction \in PhysicsAttractions :
                      PhysicsSetAttraction(attraction)
PhysicsRub == \E friction \in PhysicsFrictions : PhysicsSetFriction(friction)
NextPhysics ==
    StartRun \/ Stop \/ PhysicsAttract \/ PhysicsRub \/ PhysicsFrame
        \/ PhysicsCallback
SpecPhysics == InitPhysics /\ [][NextPhysics]_vars

\* frames keep being delivered: a requested closure gets its frame and a
\* due closure is run
SpecPhysicsFrames ==
    SpecPhysics /\ WF_vars(PhysicsFrame) /\ WF_vars(PhysicsCallback)

(***************************************************************************)
(* The focus trap.  Two files hold it: src/unnamed/part_004, modelled      *)
(* under the source's names, and src/focus-trap/focus-trap.js, modelled    *)
(* under the same names with the suffix Js.  The page has one trigger      *)
(* (an element with aria-controls = the panel's id) and one panel that     *)
(* contains one <focus-trap>; focusable says that the trap has focusable   *)
(* elements when it is set up.  expanded is the trigger's aria-expanded    *)
(* ("null" when absent), hidden the panel's aria-hidden, focus the place   *)
(* of document.activeElement, timers the number of pending callbacks that  *)
(* call trapStart.focus() (requestAnimationFrame in part_004, setTimeout   *)
(* in focus-trap.js), closed says that the last step was an Escape that    *)
(* hid the panel.                                                          *)
(***************************************************************************)
Part004Trap == "FocusTrap (src/unnamed/part_004)"
JsTrap == "FocusTrap (src/focus-trap/focus-trap.js)"
TrapClasses == {Part004Trap, JsTrap}
MaxTimers == 2

\* a variant of exitTrap that leaves the trigger's aria-expanded alone
exitTrap_KeepExpanded(t) ==
    IF t.hidden # "false" THEN t
    ELSE [t EXCEPT !.hidden = "true", !.focus = "trigger"]

\* exitTrap() of part_004, lines 72-83: the container is the panel when its
\* aria-hidden is "false"; the trigger is found when its aria-expanded is
\* "true"
exitTrap(t) ==
    IF t.hidden # "false" THEN t
    ELSE IF t.expanded = "true"
    THEN [t EXCEPT !.hidden = "true", !.expanded = "false", !.focus = "trigger"]
    ELSE [t EXCEPT !.hidden = "true"]

\* exitTrap() of focus-trap.js, lines 59-72
exitTrapJs(t) ==
    IF t.hidden # "false" THEN t
    ELSE IF t.expanded # "true" THEN [t EXCEPT !.hidden = "true"]
    ELSE [t EXCEPT !.hidden = "true", !.expanded = "false", !.focus = "trigger"]

\* handleKeyDown(e) of part_004, lines 65-70, and the listener of
\* focus-trap.js, lines 51-56, which exists when the trap had focusable
\* elements
handleKeyDown(t, key) == IF key = "Escape" THEN exitTrap(t) ELSE t
handleKeyDownJs(t, key) ==
    IF t.focusable /\ key = "Escape" THEN exitTrapJs(t) ELSE t

\* the document's keydown listener for a key pressed on the trigger:
\* part_004, lines 135-154, and focus-trap.js, lines 2-23
onKeyDown(t, key) ==
    IF key # "Enter" THEN t
    ELSE IF ~t.trapStart THEN t
    ELSE [t EXCEPT !.expanded = "true", !.hidden = "false", !.timers = @ + 1]
onKeyDownJs(t, key) ==
    IF key # "Enter" THEN t
    ELSE IF ~t.trapStart THEN t
    ELSE [t EXCEPT !.expanded = "true", !.hidden = "false", !.timers = @ + 1]

ClassOnKeyDown(t, key) ==
    IF t.cls = Part004Trap THEN onKeyDown(t, key) ELSE onKeyDownJs(t, key)
ClassHandleKeyDown(t, key) ==
    IF t.cls = Part004Trap THEN handleKeyDown(t, key) ELSE handleKeyDownJs(t, key)

\* the page after the element is set up: setupTrap() of part_004, lines
\* 50-63, and the constructor of focus-trap.js, lines 37-57.  The panel
\* starts closed.
ConstructTrap ==
    /\ trap \in
         {[cls |-> c, focusable |-> f, trapStart |-> f, expanded |-> e,
           hidden |-> "true", focus |-> "body",
           timers |-> IF f THEN 1 ELSE 0, closed |-> FALSE, op |-> "new"] :
              c \in TrapClasses, f \in BOOLEAN, e \in {"null", "false"}}
    /\ animator = [cls |-> "none"]
    /\ physics = [cls |-> "none"]
    /\ NoOthers

Keys == {"Enter", "Escape", "Tab"}

\* the user moves the focus (a click or Tab): to the trigger, to the rest
\* of the page, or to an element of the trap when it has focusable ones
Places == {"trigger", "body", "trap"}
MoveFocus(place) ==
    /\ trap.cls # "none" /\ trap.focus # place
    /\ place = "trap" => trap.focusable
    /\ trap' = [trap EXCEPT !.focus = place, !.closed = FALSE, !.op = "focus"]
    /\ UNCHANGED <<tweenVars, emitterVars, animator, physics>>

\* a key is pressed on the trigger
KeyOnTrigger(key) ==
    /\ trap.cls # "none" /\ trap.focus = "trigger"
    /\ trap.timers < MaxTimers
    /\ trap' = [ClassOnKeyDown(trap, key) EXCEPT !.closed = FALSE, !.op = key]
    /\ UNCHANGED <<tweenVars, emitterVars, animator, physics>>

\* a key is pressed on an element inside the focus trap
KeyInTrap(key) ==
    /\ trap.cls # "none" /\ trap.focus = "trap"
    /\ \E t \in {ClassHandleKeyDown(trap, key)} :
           trap' = [t EXCEPT !.closed = (trap.hidden = "false" /\ t.hidden = "true"),
                             !.op = key]
    /\ UNCHANGED <<tweenVars, emitterVars, animator, physics>>

\* a pending callback runs trapStart.focus(), and the focus handler of
\* focus-trap-start hands the focus to an element of the trap
FocusTimer ==
    /\ trap.cls # "none" /\ trap.timers > 0
    /\ trap' = [trap EXCEPT !.timers = @ - 1, !.focus = "trap",
                            !.closed = FALSE, !.op = "timer"]
    /\ UNCHANGED <<tweenVars, emitterVars, animator, physics>>

InitTrap == ConstructTrap
PressOnTrigger == \E key \in Keys : KeyOnTrigger(key)
PressInTrap == \E key \in Keys : KeyInTrap(key)
UserFocus == \E place \in Places : MoveFocus(place)
NextTrap == UserFocus \/ PressOnTrigger \/ PressInTrap \/ FocusTimer
SpecTrap == InitTrap /\ [][NextTrap]_vars

(***************************************************************************)
(* Vocabulary of the properties below.  These definitions restate the      *)
(* specification's terms on the observable state (stored keyframes, the    *)
(* argument and the returned object); none of them is used by the model    *)
(* of the code.                                                            *)
(***************************************************************************)
\* the keyframes of kfs that hold prop, in stored order
Holding(kfs, prop) == SelectSeq(kfs, LAMBDA kf : prop \in DOMAIN kf.styles)

Continuous(prop) == prop \notin discreteProperties \cup {"transform", "filter"}

\* both values are numeric strings with the same unit
SameUnit(a, b) == a.k = "dim" /\ b.k = "dim" /\ a.u = b.u

\* the first pair of neighbours of rel that encloses pct
Bracket(rel, pct) ==
    CHOOSE i \in 1..(Len(rel) - 1) :
        /\ rel[i].percent <= pct /\ pct <= rel[i + 1].percent
        /\ \A j \in 1..(i - 1) : ~(rel[j].percent <= pct /\ pct <= rel[j + 1].percent)

InRange(rel, pct) ==
    Len(rel) >= 2 /\ rel[1].percent <= pct /\ pct <= rel[Len(rel)].percent

\* r is the string of a decimal number within half a hundredth of
\* a + (b - a) * num / den, followed by unit
IsLinear(r, a, b, num, den, unit) ==
    /\ r.ty = "string"
    /\ r.pf.c = "fin"
    /\ 200 * Abs(r.pf.n * den - (a * den + (b - a) * num) * r.pf.d) <= den * r.pf.d
    /\ r.s = NumberToString(r.pf) \o unit

Width0to100 ==
    <<Keyframe(0, Style1("width", DimV(0, "px"))),
      Keyframe(100, Style1("width", DimV(100, "px")))>>

(***************************************************************************)
(* C1                                                                      *)
(***************************************************************************)
\* C1: when the stored list holds exactly one keyframe, calculateTween
\* returns that keyframe's styles, every property with its value unchanged,
\* for every progress (also below 0 and above 1).
C1_SingleKeyframeStyles ==
    (call.op = "calculateTween" /\ Len(keyframes) = 1) =>
        /\ status = "returned"
        /\ result = [prop \in DOMAIN keyframes[1].styles |->
                        JV(keyframes[1].styles[prop])]

(***************************************************************************)
(* C2                                                                      *)
(***************************************************************************)
\* C2: for a continuous property whose bracketing keyframes hold numeric
\* values with the same unit, calculateTween at a percent inside the range
\* returns start + (end - start) * factor with the unit reattached, where
\* factor = (percent - start.percent) / (end.percent - start.percent);
\* 0% -> 0px and 100% -> 100px give 50px at progress 0.5.
C2_LinearInRange ==
    Returned =>
        /\ \A prop \in DOMAIN result :
             LET rel == Holding(keyframes, prop)
                 pct == call.pos
             IN  (Continuous(prop) /\ InRange(rel, pct)) =>
                 LET i == Bracket(rel, pct)
                     a == rel[i].styles[prop]
                     b == rel[i + 1].styles[prop]
                 IN  (rel[i].percent # rel[i + 1].percent /\ SameUnit(a, b)) =>
                     IsLinear(result[prop], a.n, b.n, pct - rel[i].percent,
                              rel[i + 1].percent - rel[i].percent, a.u)
        /\ (keyframes = Width0to100 /\ call.pos = 50) => result["width"].s = "50px"

\* C2 witness: the example of the claim, and a case with a fractional result
C2_Witness ==
    /\ Returned
    /\ \/ keyframes = Width0to100 /\ call.pos = 50 /\ result["width"].s = "50px"
       \/ /\ keyframes = <<Keyframe(0, Style1("width", DimV(0, "px"))),
                           Keyframe(40, Style1("width", DimV(100, "px")))>>
          /\ call.pos = 25
          /\ result["width"].s = "62.5px"

(***************************************************************************)
(* C3                                                                      *)
(***************************************************************************)
\* C3: with keyframes 0% -> 0px and 100% -> 100px, calculateTween(1.5)
\* returns the string 150px: projected past the last keyframe, not clamped,
\* and with its px unit.
C3_ExtrapolateAbove150px ==
    (call.op = "calculateTween" /\ keyframes = Width0to100 /\ call.pos = 150) =>
        (status = "returned" /\ result["width"].s = "150px")

(***************************************************************************)
(* C4                                                                      *)
(***************************************************************************)
\* C4: for a continuous numeric property with at least two relevant
\* keyframes and a requested percent below the first of them, the result is
\* first + (second - first) * factor with
\* factor = (percent - first.percent) / (second.percent - first.percent) < 0;
\* 0% -> 0px and 100% -> 100px at progress -0.5 give -50px.
C4_ExtrapolateBelow ==
    Returned =>
        /\ \A prop \in DOMAIN result :
             LET rel == Holding(keyframes, prop)
                 pct == call.pos
             IN  (/\ Continuous(prop) /\ Len(rel) >= 2
                  /\ pct < rel[1].percent
                  /\ rel[1].percent # rel[2].percent
                  /\ SameUnit(rel[1].styles[prop], rel[2].styles[prop])) =>
                 IsLinear(result[prop], rel[1].styles[prop].n, rel[2].styles[prop].n,
                          pct - rel[1].percent, rel[2].percent - rel[1].percent,
                          rel[1].styles[prop].u)
        /\ (keyframes = Width0to100 /\ call.pos = -50) => result["width"].s = "-50px"

(***************************************************************************)
(* C5                                                                      *)
(***************************************************************************)
Block0None50 ==
    <<Keyframe(0, Style1("display", TokenV("block"))),
      Keyframe(50, Style1("display", TokenV("none")))>>

\* C5: for a discrete property calculateTween returns the value of the last
\* relevant keyframe whose percent is <= the requested percent (of several
\* with the same percent, the later one in the stored list), and the first
\* relevant keyframe's value when the requested percent precedes them all;
\* display 0% -> block, 50% -> none gives block at 0.2 and none at 0.7.
C5_DiscreteStep ==
    Returned =>
        /\ \A prop \in DOMAIN result \cap discreteProperties :
             LET rel == Holding(keyframes, prop)
                 atOrBefore == {i \in 1..Len(rel) : rel[i].percent <= call.pos}
                 pick == IF atOrBefore = {} THEN 1
                         ELSE CHOOSE i \in atOrBefore : \A j \in atOrBefore : j <= i
             IN  result[prop] = JV(rel[pick].styles[prop])
        /\ (keyframes = Block0None50 /\ call.pos = 20) => result["display"].s = "block"
        /\ (keyframes = Block0None50 /\ call.pos = 70) => result["display"].s = "none"

(***************************************************************************)
(* C6                                                                      *)
(***************************************************************************)
FuncNames(v) == {v.fs[i].name : i \in 1..Len(v.fs)}
FuncArg(v, name) == (CHOOSE f \in {v.fs[i] : i \in 1..Len(v.fs)} : f.name = name).args[1]

\* the texts name(value unit) accepted for one function of the union: the
\* value is linear between the two sides, 0 standing for a missing start
\* side; the claim leaves the unit of a substituted side open
FuncTexts(a, b, name, num, den) ==
    LET from == IF name \in FuncNames(a) THEN FuncArg(a, name).n ELSE 0
        to == FuncArg(b, name).n
        value == Fin(from * den + (to - from) * num, den)
    IN  {name \o "(" \o NumberToString(value) \o u \o ")" :
             u \in {FuncArg(b, name).u, "px", ""}}

\* C6: when the start keyframe's transform lacks a function the end
\* keyframe has, calculateTween inside the range does not fail and returns
\* a transform string holding every function of the union of both sides,
\* the missing one interpolated from a 0 baseline; start translateX(0px),
\* end translateX(10px) rotate(10deg) give rotate the magnitude 5 at 0.5.
C6_TransformUnion ==
    LET rel == Holding(keyframes, "transform")
        pct == call.pos
    IN  (call.op = "calculateTween" /\ InRange(rel, pct)) =>
        LET i == Bracket(rel, pct)
            a == rel[i].styles["transform"]
            b == rel[i + 1].styles["transform"]
            den == rel[i + 1].percent - rel[i].percent
            num == pct - rel[i].percent
            order == [k \in 1..Len(b.fs) |-> b.fs[k].name]
        IN  (den # 0 /\ FuncNames(a) \subseteq FuncNames(b) /\ FuncNames(a) # FuncNames(b)
             /\ \A k \in 1..Len(a.fs) : a.fs[k].name = b.fs[k].name) =>
            /\ status = "returned"
            /\ \E texts \in [1..Len(order) -> UNION {FuncTexts(a, b, order[k], num, den)
                                                      : k \in 1..Len(order)}] :
                 /\ \A k \in 1..Len(order) : texts[k] \in FuncTexts(a, b, order[k], num, den)
                 /\ result["transform"].s = JoinText(texts, " ")

(***************************************************************************)
(* C7                                                                      *)
(***************************************************************************)
\* Math.round as a relation: c is the integer with c <= n/d + 1/2 < c + 1
Nearest(n, d) ==
    CHOOSE c \in -1..(ByteMax + 1) : 2 * c * d <= 2 * n + d /\ 2 * n + d < 2 * (c + 1) * d

\* the one output format of each class definition
ColorText(c, rgb) ==
    IF c = SecondDefinition
    THEN "#" \o Hex2(rgb[1]) \o Hex2(rgb[2]) \o Hex2(rgb[3])
    ELSE "rgb(" \o ToString(rgb[1]) \o "," \o ToString(rgb[2]) \o ","
         \o ToString(rgb[3]) \o ")"

Black0White100 ==
    <<Keyframe(0, Style1("color", HexV(0, 0, 0))),
      Keyframe(100, Style1("color", HexV(255, 255, 255)))>>

\* C7: interpolating two #RRGGBB colours interpolates each of the three
\* channels linearly and rounds each to the nearest integer, always by the
\* same rounding rule and in the same output format; #000000 -> #FFFFFF at
\* factor 0.5 gives a mid-gray with three equal channels (127 or 128).
C7_ColorChannels ==
    Returned =>
        /\ \A prop \in DOMAIN result :
             LET rel == Holding(keyframes, prop)
                 pct == call.pos
             IN  InRange(rel, pct) =>
                 LET i == Bracket(rel, pct)
                     a == rel[i].styles[prop]
                     b == rel[i + 1].styles[prop]
                     den == rel[i + 1].percent - rel[i].percent
                     num == pct - rel[i].percent
                 IN  (den # 0 /\ a.k = "hex" /\ b.k = "hex") =>
                     result[prop].s =
                         ColorText(cls, [k \in 1..3 |->
                             Nearest(a.rgb[k] * den + (b.rgb[k] - a.rgb[k]) * num, den)])
        /\ (keyframes = Black0White100 /\ call.pos = 50) =>
               result["color"].s \in {ColorText(cls, <<127, 127, 127>>),
                                      ColorText(cls, <<128, 128, 128>>)}

\* C7 witness: the mid-gray example, and a tie-free fractional channel
C7_Witness ==
    /\ Returned
    /\ keyframes = Black0White100
    /\ call.pos = 50
    /\ result["color"].s \in {"#808080", "rgb(128,128,128)"}

(***************************************************************************)
(* C8                                                                      *)
(***************************************************************************)
PropsOf(kfs) == UNION {DOMAIN kfs[i].styles : i \in 1..Len(kfs)}

\* a sorted copy of kfs made without the model's sort: the permutation of
\* kfs that ascends by percent and keeps equal percents in input order
SortedCopy(kfs) ==
    LET n == Len(kfs)
        rank(i) == Cardinality({j \in 1..n :
                       \/ kfs[j].percent < kfs[i].percent
                       \/ kfs[j].percent = kfs[i].percent /\ j <= i})
    IN  [r \in 1..n |-> kfs[CHOOSE i \in 1..n : rank(i) = r]]

\* C8: after setKeyframes(B) on a calculator that held A, every later
\* calculateTween outcome is computed from B only: its keys are exactly the
\* properties of B, and it is the outcome of a calculator built from B.
C8_ReplacedWholesale ==
    (call.op = "calculateTween" /\ previous # <<>>) =>
        /\ status = "returned" => DOMAIN result = PropsOf(given)
        /\ [status |-> status, result |-> result]
               = Outcome(cls, SortedCopy(given), call.pos)

\* C8 witness: A held a property (color) that B lacks, and a tween was
\* computed after the replacement
C8_Witness ==
    /\ Returned
    /\ previous # <<>>
    /\ "color" \in PropsOf(previous)
    /\ "color" \notin PropsOf(given)
    /\ DOMAIN result = {"width"}
    /\ call.pos = 150

(***************************************************************************)
(* C9                                                                      *)
(***************************************************************************)
\* the keyframes that hold prop, each reduced to that one property
Projection(kfs, prop) ==
    LET rel == Holding(kfs, prop)
    IN  [i \in 1..Len(rel) |-> Keyframe(rel[i].percent, Style1(prop, rel[i].styles[prop]))]

\* C9: the key set of the returned object is the union of the property
\* names of all stored keyframes, and the value of a property depends only
\* on the keyframes that hold it: it is the value computed from those
\* keyframes with every other property removed.
C9_KeysAndIndependence ==
    Returned =>
        /\ DOMAIN result = PropsOf(keyframes)
        /\ \A prop \in DOMAIN result :
             LET alone == ClassTween(cls, Projection(keyframes, prop), call.pos)
             IN  alone[prop].ty # "throw" => result[prop] = alone[prop]

\* C9 witness: two keyframes with different property sets, one property
\* held by a single keyframe only
C9_Witness ==
    /\ Returned
    /\ Len(keyframes) = 2
    /\ DOMAIN keyframes[1].styles # DOMAIN keyframes[2].styles
    /\ DOMAIN result = DOMAIN keyframes[1].styles \cup DOMAIN keyframes[2].styles
    /\ \E prop \in DOMAIN result : Len(Holding(keyframes, prop)) = 1
    /\ \E prop \in DOMAIN result : Len(Holding(keyframes, prop)) = 2

(***************************************************************************)
(* C10                                                                     *)
(***************************************************************************)
\* C10: calculateTween never throws: for every stored list, every progress
\* and every kind of property value it returns an object with a defined
\* value for each property.
C10_NeverThrows ==
    call.op = "calculateTween" =>
        /\ status = "returned"
        /\ \A prop \in PropsOf(keyframes) :
             prop \in DOMAIN result /\ result[prop].ty \in {"string", "number"}

(***************************************************************************)
(* C11                                                                     *)
(***************************************************************************)
\* the argument is not a non-empty array of entries with percent and styles
Malformed(v) ==
    \/ v.k # "array"
    \/ Len(v.items) = 0
    \/ \E i \in 1..Len(v.items) :
           ~({"percent", "styles"} \subseteq DOMAIN v.items[i])

\* C11: a malformed constructor argument is rejected by the constructor: the
\* only call ever made with it is new, and that call throws; it is never
\* stored and then failed (or answered) by calculateTween.
C11_RejectedAtConstruction ==
    Malformed(given) => (call.op = "new" /\ status = "threw")


(***************************************************************************)
(* C12                                                                     *)
(***************************************************************************)
\* C12: the constructor and setKeyframes store a copy: right after the call
\* the caller's array still has the order and contents it was passed with,
\* and every later calculateTween result is the one computed from the list
\* as it was passed, whatever the caller did to its array since.
C12_StoresCopy ==
    /\ call.op \in {"new", "setKeyframes"} => callerArray = given
    /\ Returned =>
           result = Outcome(cls, sortByPercent(given), call.pos).result

(***************************************************************************)
(* C13                                                                     *)
(***************************************************************************)
Ascending(kfs) ==
    \A i \in 1..Len(kfs) - 1 : kfs[i].percent <= kfs[i + 1].percent
\* the entries of kfs at percent p, in their order in kfs
AtPercent(kfs, p) == SelectSeq(kfs, LAMBDA kf : kf.percent = p)
Percents(kfs) == {kfs[i].percent : i \in 1..Len(kfs)}

\* C13: after construction, after every setKeyframes and across calculateTween
\* calls, the stored list is ascending by percent, holds exactly the entries
\* of the list passed last, and keeps entries of equal percent in the
\* relative order they had in that list.
C13_SortedStable ==
    /\ Ascending(keyframes)
    /\ Len(keyframes) = Len(given)
    /\ \A p \in Percents(given) \cup Percents(keyframes) :
           AtPercent(keyframes, p) = AtPercent(given, p)

\* the constructor was given a descending list, setKeyframes then a list with
\* two different keyframes at one percent, and calculateTween has run since
C13_Witness ==
    /\ call.op = "calculateTween"
    /\ Len(previous) > 1
    /\ previous[1].percent > previous[Len(previous)].percent
    /\ \E i, j \in 1..Len(given) :
           i < j /\ given[i].percent = given[j].percent /\ given[i] # given[j]

(***************************************************************************)
(* C14                                                                     *)
(***************************************************************************)
\* C14: calculateTween is a pure function of the stored keyframes and the
\* progress: after any number of calculateTween calls the stored list (every
\* keyframe's percent and styles) is as the last constructor or setKeyframes
\* call left it, and a calculateTween call ends as the earlier calls with the
\* same progress made since then ended, with an equal result, whatever
\* calculateTween calls were made between them.
C14_Pure ==
    call.op = "calculateTween" =>
        /\ keyframes = tweens.stored
        /\ \A e \in tweens.first \cup tweens.other :
               e.pos = call.pos => e.status = status /\ e.result = result

\* calculateTween calls since the last setKeyframes call, on a list of two
\* keyframes: the last one has the progress of the first one, both returned,
\* and a call between them had another progress and another result
C14_Witness ==
    /\ call.op = "calculateTween"
    /\ status = "returned"
    /\ previous # <<>>
    /\ Len(keyframes) = MaxKeyframes
    /\ \E e \in tweens.first : e.pos = call.pos
    /\ \E e \in tweens.other : e.result # result

(***************************************************************************)
(* C15                                                                     *)
(***************************************************************************)
\* name(v1u1, v2u2, ...): every argument linear between the two sides, with
\* the unit of the start argument at its position
ArgsText(f, g, num, den) ==
    f.name \o "("
    \o JoinText([k \in 1..Len(f.args) |->
                    NumberToString(Fin(f.args[k].n * den
                                       + (g.args[k].n - f.args[k].n) * num, den))
                    \o f.args[k].u], ", ")
    \o ")"

\* C15: when both bracketing keyframes hold the same transform function with
\* several arguments, calculateTween inside the range returns name(arg1,
\* arg2, ...), each positional argument interpolated independently by the
\* linear formula and carrying the unit of the start argument.
C15_MultiArgument ==
    LET rel == Holding(keyframes, "transform")
        pct == call.pos
    IN  (call.op = "calculateTween" /\ InRange(rel, pct)) =>
        LET i == Bracket(rel, pct)
            a == rel[i].styles["transform"]
            b == rel[i + 1].styles["transform"]
            den == rel[i + 1].percent - rel[i].percent
            num == pct - rel[i].percent
        IN  (/\ den # 0
             /\ Len(a.fs) = 1 /\ Len(b.fs) = 1
             /\ a.fs[1].name = b.fs[1].name
             /\ Len(a.fs[1].args) > 1
             /\ Len(a.fs[1].args) = Len(b.fs[1].args)) =>
            /\ status = "returned"
            /\ result["transform"].s = ArgsText(a.fs[1], b.fs[1], num, den)

(***************************************************************************)
(* C16                                                                     *)
(***************************************************************************)
\* C16: a filter whose bracketing keyframes hold the same functions is
\* interpolated like a transform: inside the range every function's numeric
\* argument is linear between the two sides and the result is reassembled
\* as name(value unit) ..., blur(15px) -> blur(0px) giving blur(7.5px) at
\* factor 0.5; the result does not step from the start to the end string.
C16_FilterInterpolated ==
    LET rel == Holding(keyframes, "filter")
        pct == call.pos
    IN  (call.op = "calculateTween" /\ InRange(rel, pct)) =>
        LET i == Bracket(rel, pct)
            a == rel[i].styles["filter"]
            b == rel[i + 1].styles["filter"]
            den == rel[i + 1].percent - rel[i].percent
            num == pct - rel[i].percent
        IN  (/\ den # 0
             /\ Len(a.fs) = Len(b.fs)
             /\ \A k \in 1..Len(a.fs) :
                    /\ a.fs[k].name = b.fs[k].name
                    /\ Len(a.fs[k].args) = 1 /\ Len(b.fs[k].args) = 1) =>
            /\ status = "returned"
            /\ result["filter"].s =
                   JoinText([k \in 1..Len(a.fs) |->
                                ArgsText(a.fs[k], b.fs[k], num, den)], " ")

(***************************************************************************)
(* C17                                                                     *)
(***************************************************************************)
\* the channel values a colour result can be looked for among: the bounds
\* of the byte range, the keyframes' own channels, and every byte that is
\* the nearest integer to the line through two neighbouring keyframes
ChannelsAt(rel, prop, k, pct) ==
    {0, ByteMax}
    \cup {rel[i].styles[prop].rgb[k] : i \in 1..Len(rel)}
    \cup {v \in 0..ByteMax :
             \E i \in 1..Len(rel) - 1 :
                 LET d == rel[i + 1].percent - rel[i].percent
                     n == rel[i].styles[prop].rgb[k] * d
                          + (rel[i + 1].styles[prop].rgb[k]
                             - rel[i].styles[prop].rgb[k]) * (pct - rel[i].percent)
                 IN  d > 0 /\ 2 * v * d <= 2 * n + d /\ 2 * n + d < 2 * (v + 1) * d}

\* #RRGGBB or rgb(r,g,b) with the three channels taken from the given sets
WellFormedColours(reds, greens, blues) ==
    {ColorText(c, <<r, g, b>>) :
         c \in Classes, r \in reds, g \in greens, b \in blues}

\* C17: for a property whose relevant keyframes all hold colours,
\* calculateTween returns a well-formed colour string with every channel an
\* integer in 0..255, for every progress, also below 0 and above 1 where the
\* linear projection of a channel leaves 0..255.
C17_ColourInRange ==
    call.op = "calculateTween" =>
        \A prop \in UNION {DOMAIN keyframes[i].styles : i \in 1..Len(keyframes)} :
            LET rel == Holding(keyframes, prop)
            IN  (\A i \in 1..Len(rel) : rel[i].styles[prop].k = "hex") =>
                /\ status = "returned"
                /\ result[prop].ty = "string"
                /\ result[prop].s \in
                       WellFormedColours(ChannelsAt(rel, prop, 1, call.pos),
                                         ChannelsAt(rel, prop, 2, call.pos),
                                         ChannelsAt(rel, prop, 3, call.pos))

(***************************************************************************)
(* C20                                                                     *)
(***************************************************************************)
\* C20: when the two bracketing keyframes of a continuous property have the
\* same percent and that percent is requested, calculateTween returns the
\* start keyframe's value for the property: the division by the zero
\* distance between them does not reach the output as NaN or Infinity.
C20_EqualPercentGuard ==
    call.op = "calculateTween" =>
        \A prop \in UNION {DOMAIN keyframes[i].styles : i \in 1..Len(keyframes)} :
            LET rel == Holding(keyframes, prop)
                pct == call.pos
            IN  (Continuous(prop) /\ InRange(rel, pct)) =>
                LET i == Bracket(rel, pct)
                IN  rel[i].percent = rel[i + 1].percent =>
                    /\ status = "returned"
                    /\ result[prop] = JV(rel[i].styles[prop])

(***************************************************************************)
(* C18                                                                     *)
(***************************************************************************)
\* C18: emit(event) calls every listener that is bound to the event when
\* emit starts, exactly once each and in registration order, also when a
\* listener calls off() or on() while the emit is in progress.
C18_EmitCallsBound ==
    (ecall.op = "emit" /\ frame.pc \in {"returned", "threw"}) =>
        /\ frame.pc = "returned"
        /\ frame.called = frame.bound

(***************************************************************************)
(* C19                                                                     *)
(***************************************************************************)
Occurrences(list, x) == Cardinality({i \in 1..Len(list) : list[i] = x})

\* no listener occurs twice in the list of an event; right after off() the
\* listener is not bound at all; an emit whose listeners leave the emitter
\* alone calls each bound listener once
NoDuplicates ==
    /\ \A event \in Events, l \in Listeners :
           Occurrences(events[event].list, l) <= 1
    /\ ecall.op = "off" => ~Includes(events[ecall.event].list, ecall.listener)
    /\ ecall.op = "on" => Occurrences(events[ecall.event].list, ecall.listener) = 1
    /\ (ecall.op = "emit" /\ frame.pc = "returned"
        /\ \A i \in 1..Len(frame.bound) : frame.bound[i] \in {"a", "b"}) =>
           \A l \in Listeners :
               Occurrences(frame.called, l) = Occurrences(frame.bound, l)

\* C19: after any sequence of on() and off() calls no listener function
\* appears more than once in the list of an event: on() with a listener
\* already bound to that event changes nothing, so one emit calls it once
\* and a single off() unbinds it completely.
C19_NoDuplicateListeners ==
    /\ []NoDuplicates
    /\ [][(ecall'.op = "on" /\ frame.pc # "running"
           /\ Includes(events[ecall'.event].list, ecall'.listener)) =>
              events' = events]_vars

\* on() has just been called with a listener that was bound to the event
\* before the listener that follows it in the list
C19_Witness ==
    /\ ecall.op = "on"
    /\ Len(events[ecall.event].list) = MaxListeners
    /\ IndexOf(events[ecall.event].list, ecall.listener) = 1

(***************************************************************************)
(* C21                                                                     *)
(***************************************************************************)
\* the unit of a value that parses as a number with unit
UnitText(v) == IF v.k = "dim" THEN v.u ELSE ""
\* the two values cannot be interpolated as numbers or as colours
Mismatched(a, b) ==
    /\ ~(a.k = "hex" /\ b.k = "hex")
    /\ \/ a.k \notin {"number", "dim"}
       \/ b.k \notin {"number", "dim"}
       \/ UnitText(a) # UnitText(b)
\* the index in rel of the start keyframe of the pair that resolves pct:
\* the first two below the range, the last two above it, the bracket inside
PairAt(rel, pct) ==
    IF pct < rel[1].percent THEN 1
    ELSE IF pct > rel[Len(rel)].percent THEN Len(rel) - 1
    ELSE Bracket(rel, pct)

\* C21: for a continuous property whose start and end values have different
\* units, or where either is no number with unit (and they are not both
\* colours), calculateTween returns the start value unchanged while
\* factor < 1 and the end value unchanged otherwise, inside the keyframe
\* range and outside it; the other properties of the call are resolved.
C21_DiscreteFallback ==
    call.op = "calculateTween" =>
        \A prop \in UNION {DOMAIN keyframes[i].styles : i \in 1..Len(keyframes)} :
            LET rel == Holding(keyframes, prop)
                pct == call.pos
            IN  (Continuous(prop) /\ Len(rel) >= 2) =>
                LET i == PairAt(rel, pct)
                    a == rel[i].styles[prop]
                    b == rel[i + 1].styles[prop]
                IN  Mismatched(a, b) =>
                    /\ status = "returned"
                    /\ result[prop] = (IF pct < rel[i + 1].percent THEN JV(a) ELSE JV(b))
                    /\ \A other \in DOMAIN result : result[other] # Null

(***************************************************************************)
(* C22                                                                     *)
(***************************************************************************)
TranslateX0to100 ==
    <<Keyframe(0, Style1("transform", FuncsV(<<Fn("translateX", <<Arg(0, "px")>>)>>))),
      Keyframe(100, Style1("transform", FuncsV(<<Fn("translateX", <<Arg(100, "px")>>)>>)))>>

\* both transforms hold the same one-argument functions in the same order,
\* with the same units
SameFunctions(a, b) ==
    /\ Len(a.fs) = Len(b.fs)
    /\ \A k \in 1..Len(a.fs) :
          /\ a.fs[k].name = b.fs[k].name
          /\ Len(a.fs[k].args) = 1 /\ Len(b.fs[k].args) = 1
          /\ a.fs[k].args[1].u = b.fs[k].args[1].u

\* the transform string whose every argument is a + (b - a) * num / den
ProjectedText(a, b, num, den) ==
    JoinText([k \in 1..Len(a.fs) |-> ArgsText(a.fs[k], b.fs[k], num, den)], " ")

\* C22: for the transform property a percent outside the keyframe range is
\* resolved per function argument by the linear formula of the range, in
\* both directions and with the unit kept; translateX(0px) at 0% and
\* translateX(100px) at 100% give translateX(150px) at 1.5 and
\* translateX(-50px) at -0.5.
C22_TransformProjected ==
    LET rel == Holding(keyframes, "transform")
        pct == call.pos
    IN  (call.op = "calculateTween" /\ Len(rel) >= 2 /\ ~InRange(rel, pct)) =>
        LET i == PairAt(rel, pct)
            a == rel[i].styles["transform"]
            b == rel[i + 1].styles["transform"]
        IN  /\ (rel[i].percent # rel[i + 1].percent /\ SameFunctions(a, b)) =>
                /\ status = "returned"
                /\ result["transform"].ty = "string"
                /\ result["transform"].s =
                       ProjectedText(a, b, pct - rel[i].percent,
                                     rel[i + 1].percent - rel[i].percent)
            /\ (keyframes = TranslateX0to100 /\ pct = 150) =>
                   result["transform"].s = "translateX(150px)"
            /\ (keyframes = TranslateX0to100 /\ pct = -50) =>
                   result["transform"].s = "translateX(-50px)"

(***************************************************************************)
(* C23                                                                     *)
(***************************************************************************)
\* the value of a transform function that leaves the element as it is
NeutralValue(name) == IF name \in {"scale", "scaleX", "scaleY", "scaleZ"} THEN 1 ELSE 0

\* the function names of both sides, those of the start side first
UnionNames(a, b) ==
    [k \in 1..Len(a.fs) |-> a.fs[k].name]
    \o SelectSeq([k \in 1..Len(b.fs) |-> b.fs[k].name],
                 LAMBDA name : name \notin FuncNames(a))

\* name(value unit) with the neutral value standing for a missing side and
\* the unit of the side that has the function
NeutralText(a, b, name, num, den) ==
    LET from == IF name \in FuncNames(a) THEN FuncArg(a, name).n ELSE NeutralValue(name)
        to == IF name \in FuncNames(b) THEN FuncArg(b, name).n ELSE NeutralValue(name)
        unit == IF name \in FuncNames(a) THEN FuncArg(a, name).u ELSE FuncArg(b, name).u
    IN  name \o "(" \o NumberToString(Fin(from * den + (to - from) * num, den))
        \o unit \o ")"

Rotate10At100 ==
    <<Keyframe(0, Style1("transform", FuncsV(<<Fn("translateX", <<Arg(0, "px")>>)>>))),
      Keyframe(100, Style1("transform", FuncsV(<<Fn("translateX", <<Arg(10, "px")>>),
                                                 Fn("rotate", <<Arg(10, "deg")>>)>>)))>>

\* C23: when a transform function is present on one side only, the missing
\* side is given the neutral value of that function (0, and 1 for scale)
\* with the unit of the side that has the function; rotate missing from the
\* start and rotate(10deg) at the end produce a value in deg.
C23_NeutralDefault ==
    LET rel == Holding(keyframes, "transform")
        pct == call.pos
    IN  (call.op = "calculateTween" /\ InRange(rel, pct)) =>
        LET i == Bracket(rel, pct)
            a == rel[i].styles["transform"]
            b == rel[i + 1].styles["transform"]
            names == UnionNames(a, b)
        IN  /\ (rel[i].percent # rel[i + 1].percent /\ FuncNames(a) # FuncNames(b)) =>
                /\ status = "returned"
                /\ result["transform"].s =
                       JoinText([k \in 1..Len(names) |->
                                    NeutralText(a, b, names[k], pct - rel[i].percent,
                                                rel[i + 1].percent - rel[i].percent)],
                                " ")
            /\ (keyframes = Rotate10At100 /\ pct = 50) =>
                   /\ status = "returned"
                   /\ result["transform"].s = "translateX(5px) rotate(5deg)"

(***************************************************************************)
(* C24                                                                     *)
(***************************************************************************)
\* the RGB triple of a colour: the channels of #RRGGBB, and for hsl and
\* hsla the chroma / hue-sector formula with
\*   chroma = (1 - |2l - 1|) * s,  x = chroma * (1 - |(h / 60) mod 2 - 1|),
\*   m = l - chroma / 2,  channel = round(255 * (part + m)),
\* all over the common denominator 600000; alpha plays no part
StandardRGB(v) ==
    IF v.k = "hex" THEN v.rgb
    ELSE
    LET h == v.h % 360
        chroma == (100 - Abs(2 * v.l - 100)) * v.s
        c == 60 * chroma
        x == chroma * (60 - Abs((h % 120) - 60))
        m == 30 * (200 * v.l - chroma)
        parts == CASE h < 60 -> <<c, x, 0>>
                   [] h >= 60 /\ h < 120 -> <<x, c, 0>>
                   [] h >= 120 /\ h < 180 -> <<0, c, x>>
                   [] h >= 180 /\ h < 240 -> <<0, x, c>>
                   [] h >= 240 /\ h < 300 -> <<x, 0, c>>
                   [] h >= 300 -> <<c, 0, x>>
    IN  [i \in 1..3 |-> Nearest(ByteMax * (parts[i] + m), 600000)]

\* C24: an hsl(h, s%, l%) or hsla(h, s%, l%, a) endpoint of a colour
\* interpolation is converted to the RGB triple of the chroma / hue-sector
\* formula, an hsla colour to the triple of the hsl colour with the same h,
\* s and l and not to black: the colour returned between two keyframes is
\* the channel-wise interpolation of those triples.
C24_HslToRGB ==
    call.op = "calculateTween" =>
        LET rel == Holding(keyframes, "color")
            pct == call.pos
        IN  InRange(rel, pct) =>
            LET i == Bracket(rel, pct)
                a == rel[i].styles["color"]
                b == rel[i + 1].styles["color"]
                den == rel[i + 1].percent - rel[i].percent
                num == pct - rel[i].percent
                from == StandardRGB(a)
                to == StandardRGB(b)
            IN  (den # 0 /\ "hsl" \in {a.k, b.k}) =>
                /\ status = "returned"
                /\ result["color"].s =
                       ColorText(cls, [k \in 1..3 |->
                           Nearest(from[k] * den + (to[k] - from[k]) * num, den)])

(***************************************************************************)
(* C25                                                                     *)
(***************************************************************************)
\* the listeners of list after the first throwing one
RECURSIVE AfterThrowing(_)
AfterThrowing(list) ==
    IF Len(list) = 0 THEN <<>>
    ELSE IF Head(list) = Throwing THEN Tail(list)
    ELSE AfterThrowing(Tail(list))

\* C25: in emit a listener that throws does not stop the emit: every
\* listener bound after it is still called, the exception does not reach
\* the caller of emit, and emit returns true.
C25_ThrowingListener ==
    (ecall.op = "emit" /\ frame.pc \in {"returned", "threw"}
     /\ Includes(frame.bound, Throwing)) =>
        /\ frame.pc = "returned"
        /\ \A k \in 1..Len(AfterThrowing(frame.bound)) :
               Includes(AfterThrowing(frame.called), AfterThrowing(frame.bound)[k])
        /\ frame.value = "true"

(***************************************************************************)
(* C26                                                                     *)
(***************************************************************************)
\* the callbacks of #animateToTarget that have been requested and have
\* not run yet
PendingCallbacks == animator.requested + animator.due

\* C26: at most one frame-callback loop drives a DPAnimateXPos instance at
\* any time: neither animateToXPos during an animation nor stopAnimation()
\* followed by animateToXPos() before the pending frame callback has run
\* leaves a running animation with two callbacks pending.
C26_OneLoop ==
    (animator.cls # "none" /\ animator.isAnimating) => PendingCallbacks <= 1

(***************************************************************************)
(* C27                                                                     *)
(***************************************************************************)
\* |currentX - targetX| < 0.20
WithinThreshold ==
    5 * Abs(animator.currentX.n * animator.targetX.d
            - animator.targetX.n * animator.currentX.d)
        < animator.currentX.d * animator.targetX.d

\* the last step was a call of #animateToTarget for a running animation
Stepped == animator.cls # "none" /\ animator.op \in {"animateToXPos", "callback"} /\ animator.ran

\* C27: an animation finishes on the first frame after which
\* |currentX - targetX| < 0.20 and not before: isAnimating is false then,
\* velocity is 0, currentX equals targetX, the step requested no further
\* frame, and 'animationDidFinish' has been emitted exactly once for the
\* animation.
C27_FinishOnThreshold ==
    /\ animator.cls # "none" => animator.emitted <= 1
    /\ Stepped =>
         IF WithinThreshold
         THEN /\ ~animator.isAnimating
              /\ animator.velocity = Int2Num(0)
              /\ animator.currentX = animator.targetX
              /\ ~animator.asked
              /\ animator.emitted = 1
         ELSE /\ animator.isAnimating
              /\ animator.emitted = 0

\* C28: when a run of animateTo reaches its target, the last call of its
\* callback carries position = endValue and progress = 1, that call comes
\* before the promise resolves, and the callback is not called afterwards
RunsOf == IF physics.cls = "none" THEN <<>> ELSE physics.runs
C28_FinalCallback ==
    \A i \in DOMAIN RunsOf :
        RunsOf[i].resolved =>
            /\ RunsOf[i].calls # <<>>
            /\ RunsOf[i].calls[Len(RunsOf[i].calls)] =
                   [position |-> RunsOf[i].endValue, progress |-> Int2Num(1)]
            /\ RunsOf[i].settled = Len(RunsOf[i].calls)

\* C29: every promise returned by animateTo is eventually resolved, when
\* frames keep being delivered and the spring converges (within the bound
\* on integration steps)
Unresolved(i) == i \in DOMAIN RunsOf /\ ~RunsOf[i].resolved
Resolved(i) == i \in DOMAIN RunsOf /\ RunsOf[i].resolved
Converging == physics.cls # "none" => physics.steps < MaxIntegrations
C29_EveryPromiseResolves ==
    \A i \in 1..MaxRuns : Unresolved(i) ~> (Resolved(i) \/ ~Converging)

\* C30: the trigger has aria-expanded="true" exactly when the panel has
\* aria-hidden="false", and an Escape that hides the panel leaves the focus
\* on the trigger
C30_TriggerMatchesPanel ==
    trap.cls # "none" =>
        /\ (trap.expanded = "true") <=> (trap.hidden = "false")
        /\ trap.closed => trap.focus = "trigger"

\* an Escape inside the trap has just closed a panel that Enter had opened
C30_Witness ==
    /\ trap.cls # "none" /\ trap.op = "Escape" /\ trap.closed
    /\ trap.expanded = "false" /\ trap.hidden = "true" /\ trap.focus = "trigger"

====
